---- MODULE Spec2Model ----
(***************************************************************************)
(* Verification model of the greentic-runner host                          *)
(* (crates/greentic-runner-host/src): the artifact cache (MemoryCache,     *)
(* DiskCache, Singleflight, CacheManager), the operator registry, the      *)
(* schema validator, the contract cache and the operator invocation        *)
(* pipeline.                                                               *)
(*                                                                         *)
(* Byte strings are sequences of small naturals; u64 counters are plain    *)
(* naturals (the saturating_add / saturating_sub of the source never       *)
(* saturate within the bounds explored here).                              *)
(***************************************************************************)
EXTENDS FiniteSets, Integers, Sequences, TLC

VARIABLES
    max_bytes,          \* MemoryCache.max_bytes
    lfu_protect_hits,   \* MemoryCache.lfu_protect_hits
    memory,             \* MemoryState behind MemoryCache.state
    memOps,             \* number of direct MemoryCache calls made so far
    lastMem,            \* the last direct MemoryCache call and its result
    memory_enabled,     \* CacheConfig.memory_enabled
    disk_enabled,       \* CacheConfig.disk_enabled
    disk_max_bytes,     \* DiskCache.disk_max_bytes: Option<u64>
    hashing,            \* the schemas given to compute_contract_hashes, as
                        \* written and with their keys permuted, and the
                        \* hashes computed
    disk,               \* the directory tree under DiskCache.root
    now,                \* the wall clock read by Utc::now()
    metrics,            \* CacheMetrics
    locks,              \* Singleflight.locks: key -> lock object (0: no entry)
    nextLock,           \* number of lock objects allocated so far
    mutex,              \* per lock object: the task holding the Mutex (0: free)
    task,               \* per task: the call it is running and its position
    diskOps,            \* number of direct DiskCache calls started so far
    written,            \* per file name: bytes of the last write_atomic that
                        \* returned Ok with size-consistent metadata, not
                        \* deleted or overwritten since
    writtenAny,         \* the same for any write_atomic that returned Ok
    sawFailure,         \* tasks that were waiting for a key's lock when the
                        \* holder failed in produce_bytes_fn or compilation
    runtime,            \* TenantRuntime: tenant, policy, packs, secrets
    registry,           \* OperatorRegistry built over the runtime's packs
    contract_cache,     \* ContractCacheState behind ContractCache.state
    op_metrics,         \* OperatorMetrics
    inv                 \* per caller: the invoke_operator call it is running

memVars == <<max_bytes, lfu_protect_hits, memory, memOps, lastMem>>
cfgVars == <<memory_enabled, disk_enabled, disk_max_bytes, hashing>>
sfVars == <<locks, nextLock, mutex>>
ghostVars == <<written, writtenAny, sawFailure>>
opVars == <<runtime, registry, contract_cache, op_metrics, inv>>

vars == <<max_bytes, lfu_protect_hits, memory, memOps, lastMem,
          memory_enabled, disk_enabled, disk_max_bytes, hashing, disk, now,
          metrics,
          locks, nextLock, mutex, task, diskOps,
          written, writtenAny, sawFailure,
          runtime, registry, contract_cache, op_metrics, inv>>

\* Option<T>: the empty sequence is None, <<x>> is Some(x).
Nothing == << >>
Some(x) == <<x>>
IsSome(o) == Len(o) = 1
Unwrap(o) == o[1]

\* No schemas are being hashed.
NotHashing == [side |-> "", written |-> << >>, permuted |-> << >>,
               hashes |-> Nothing]

(***************************************************************************)
(* The operator side before any runtime is constructed.                    *)
(***************************************************************************)
\* contract_cache.rs:69-77: ContractCacheState::default().
ContractCacheStateDefault ==
    [entries |-> << >>, lru |-> << >>, total_bytes |-> 0,
     hits |-> 0, misses |-> 0, evictions |-> 0]

OperatorMetricsDefault ==
    [resolve_attempts |-> 0, resolve_errors |-> 0, invoke_attempts |-> 0,
     invoke_errors |-> 0, cbor_decode_errors |-> 0]

QuietOperator ==
    /\ runtime = Nothing
    /\ registry = Nothing
    /\ contract_cache = ContractCacheStateDefault
    /\ op_metrics = OperatorMetricsDefault
    /\ inv = << >>

(***************************************************************************)
(* Bounds                                                                  *)
(***************************************************************************)
MaxMemOps == 5          \* direct MemoryCache calls per behaviour
MaxEntrySize == 2       \* largest bytes_estimate passed to a direct insert

(***************************************************************************)
(* Engine profiles and artifact keys                                       *)
(***************************************************************************)
\* The profile the cache was constructed with.
Profile ==
    [ wasmtime_version   |-> "wt1",
      target_triple      |-> "x86_64-linux",
      cpu_policy         |-> "native",
      config_fingerprint |-> "default",
      engine_profile_id  |-> "P1" ]

ProfileIds == {"P1", "P2"}
Digests == {"sha256:a", "sha256:b"}

ArtifactKey(pid, digest) == [engine_profile_id |-> pid, wasm_digest |-> digest]

AllKeys == {ArtifactKey(p, d) : p \in ProfileIds, d \in Digests}

\* Placeholder key of a call record that holds no call.
NoKey == ArtifactKey("-", "-")

\* Keys used by direct MemoryCache calls.
MemKeys == {ArtifactKey("P1", "sha256:a"), ArtifactKey("P1", "sha256:b"),
            ArtifactKey("P2", "sha256:a")}

(***************************************************************************)
(* MemoryCache (memory.rs)                                                 *)
(* lru is a VecDeque: index 1 is the front, Len(lru) the back.             *)
(***************************************************************************)
EmptyFn == [x \in {} |-> 0]

MemoryStateDefault ==
    [ entries     |-> EmptyFn,
      lru         |-> << >>,
      total_bytes |-> 0,
      hits        |-> 0,
      misses      |-> 0,
      evictions   |-> 0 ]

CacheEntry(component, bytes_estimate, pinned) ==
    [ component      |-> component,
      bytes_estimate |-> bytes_estimate,
      hit_count      |-> 0,
      pinned         |-> pinned ]

RemoveKey(f, k) == [x \in (DOMAIN f) \ {k} |-> f[x]]

RemoveAt(s, pos) == SubSeq(s, 1, pos - 1) \o SubSeq(s, pos + 1, Len(s))

\* lru.iter().position(|item| item == key)
Position(lru, key) ==
    IF \E i \in 1..Len(lru) : lru[i] = key
    THEN CHOOSE i \in 1..Len(lru) :
            lru[i] = key /\ \A j \in 1..(i - 1) : lru[j] # key
    ELSE 0

touch_lru(lru, key) ==
    LET pos == Position(lru, key)
    IN  IF pos # 0 THEN <<key>> \o RemoveAt(lru, pos) ELSE lru

remove_lru(lru, key) ==
    LET pos == Position(lru, key)
    IN  IF pos # 0 THEN RemoveAt(lru, pos) ELSE lru

should_skip_candidate_nopin(state, key, protect_lfu, lfu_threshold) ==
    IF key \notin DOMAIN state.entries THEN FALSE
    ELSE protect_lfu /\ lfu_threshold > 0
            /\ state.entries[key].hit_count >= lfu_threshold

should_skip_candidate(state, key, protect_lfu, lfu_threshold) ==
    IF key \notin DOMAIN state.entries THEN FALSE
    ELSE IF state.entries[key].pinned THEN TRUE
    ELSE IF protect_lfu /\ lfu_threshold > 0
            /\ state.entries[key].hit_count >= lfu_threshold THEN TRUE
    ELSE FALSE

\* A loop that does not put a skipped candidate back at the front.
RECURSIVE EvictPass_dropskipped(_, _, _, _, _, _)
EvictPass_dropskipped(state, maxb, lfu, protect_lfu, attempts, evicted_any) ==
    IF state.total_bytes > maxb /\ attempts > 0 /\ Len(state.lru) > 0
    THEN LET n         == Len(state.lru)
             candidate == state.lru[n]
             popped    == SubSeq(state.lru, 1, n - 1)
         IN  IF should_skip_candidate(state, candidate, protect_lfu, lfu)
             THEN EvictPass_dropskipped([state EXCEPT !.lru = popped],
                            maxb, lfu, protect_lfu, attempts - 1, evicted_any)
             ELSE IF candidate \in DOMAIN state.entries
             THEN EvictPass_dropskipped(
                    [state EXCEPT
                        !.lru = popped,
                        !.entries = RemoveKey(state.entries, candidate),
                        !.total_bytes =
                            @ - state.entries[candidate].bytes_estimate,
                        !.evictions = @ + 1],
                    maxb, lfu, protect_lfu, attempts - 1, TRUE)
             ELSE EvictPass_dropskipped([state EXCEPT !.lru = popped],
                            maxb, lfu, protect_lfu, attempts - 1, evicted_any)
    ELSE [state |-> state, evicted_any |-> evicted_any]

\* One `while state.total_bytes > self.max_bytes && attempts > 0` loop of
\* evict_if_needed; returns the state and whether anything was evicted.
RECURSIVE EvictPass(_, _, _, _, _, _)
EvictPass(state, maxb, lfu, protect_lfu, attempts, evicted_any) ==
    IF state.total_bytes > maxb /\ attempts > 0 /\ Len(state.lru) > 0
    THEN LET n         == Len(state.lru)
             candidate == state.lru[n]
             popped    == SubSeq(state.lru, 1, n - 1)
         IN  IF should_skip_candidate(state, candidate, protect_lfu, lfu)
             THEN EvictPass([state EXCEPT !.lru = <<candidate>> \o popped],
                            maxb, lfu, protect_lfu, attempts - 1, evicted_any)
             ELSE IF candidate \in DOMAIN state.entries
             THEN EvictPass(
                    [state EXCEPT
                        !.lru = popped,
                        !.entries = RemoveKey(state.entries, candidate),
                        !.total_bytes =
                            @ - state.entries[candidate].bytes_estimate,
                        !.evictions = @ + 1],
                    maxb, lfu, protect_lfu, attempts - 1, TRUE)
             ELSE EvictPass([state EXCEPT !.lru = popped],
                            maxb, lfu, protect_lfu, attempts - 1, evicted_any)
    ELSE [state |-> state, evicted_any |-> evicted_any]

\* An eviction that takes its candidates from the front of the order.
evict_if_needed_mru(state, maxb, lfu) ==
    IF maxb = 0 THEN state
    ELSE LET n == Len(state.lru)
             turned == [state EXCEPT
                          !.lru = [i \in 1..n |-> state.lru[n + 1 - i]]]
             pass1 == EvictPass(turned, maxb, lfu, TRUE, n, FALSE)
         IN  IF pass1.state.total_bytes <= maxb \/ ~pass1.evicted_any
             THEN pass1.state
             ELSE EvictPass(pass1.state, maxb, lfu, FALSE,
                            Len(pass1.state.lru), FALSE).state

\* An eviction whose pressure pass runs whatever the protected pass did.
evict_if_needed_alwayspressure(state, maxb, lfu) ==
    IF maxb = 0 THEN state
    ELSE LET pass1 == EvictPass(state, maxb, lfu, TRUE, Len(state.lru), FALSE)
         IN  IF pass1.state.total_bytes <= maxb
             THEN pass1.state
             ELSE EvictPass(pass1.state, maxb, lfu, FALSE,
                            Len(pass1.state.lru), FALSE).state

evict_if_needed(state, maxb, lfu) ==
    IF maxb = 0 THEN state
    ELSE LET pass1 == EvictPass(state, maxb, lfu, TRUE, Len(state.lru), FALSE)
         IN  IF pass1.state.total_bytes <= maxb \/ ~pass1.evicted_any
             THEN pass1.state
             ELSE EvictPass(pass1.state, maxb, lfu, FALSE,
                            Len(pass1.state.lru), FALSE).state

\* A get that leaves the LRU order alone.
MemoryCache_get_notouch(state, key) ==
    IF key \in DOMAIN state.entries
    THEN [ state  |-> [state EXCEPT
                          !.hits = @ + 1,
                          !.entries[key].hit_count = @ + 1],
           result |-> Some(state.entries[key].component) ]
    ELSE [ state  |-> [state EXCEPT !.misses = @ + 1],
           result |-> Nothing ]

\* MemoryCache::get: the new state and the returned Option<component>.
MemoryCache_get(state, key) ==
    IF key \in DOMAIN state.entries
    THEN [ state  |-> [state EXCEPT
                          !.hits = @ + 1,
                          !.entries[key].hit_count = @ + 1,
                          !.lru = touch_lru(state.lru, key)],
           result |-> Some(state.entries[key].component) ]
    ELSE [ state  |-> [state EXCEPT !.misses = @ + 1],
           result |-> Nothing ]

\* An insert that forgets the bytes of the entry it replaces.
MemoryCache_insert_keepbytes(state, maxb, lfu, key, value, bytes_estimate, pinned) ==
    LET removed ==
            IF key \in DOMAIN state.entries
            THEN [state EXCEPT
                    !.entries = RemoveKey(state.entries, key),
                    !.lru = remove_lru(state.lru, key)]
            ELSE state
        added ==
            [removed EXCEPT
                !.entries = (key :> CacheEntry(value, bytes_estimate, pinned))
                                @@ removed.entries,
                !.total_bytes = @ + bytes_estimate,
                !.lru = <<key>> \o removed.lru]
    IN  evict_if_needed(added, maxb, lfu)

\* MemoryCache::stats
MemoryCache_stats(state) ==
    [hits |-> state.hits, misses |-> state.misses,
     evictions |-> state.evictions,
     entries |-> Cardinality(DOMAIN state.entries),
     total_bytes |-> state.total_bytes]

MemoryCache_insert(state, maxb, lfu, key, value, bytes_estimate, pinned) ==
    LET removed ==
            IF key \in DOMAIN state.entries
            THEN [state EXCEPT
                    !.entries = RemoveKey(state.entries, key),
                    !.total_bytes = @ - state.entries[key].bytes_estimate,
                    !.lru = remove_lru(state.lru, key)]
            ELSE state
        added ==
            [removed EXCEPT
                !.entries = (key :> CacheEntry(value, bytes_estimate, pinned))
                                @@ removed.entries,
                !.total_bytes = @ + bytes_estimate,
                !.lru = <<key>> \o removed.lru]
    IN  evict_if_needed(added, maxb, lfu)

(***************************************************************************)
(* Wasm bytes, components and their serialized form.                       *)
(* A wasm binary starts with the magic 1; Component::from_binary rejects   *)
(* anything else.  A serialized component is the magic 0 followed by the   *)
(* binary; Component::deserialize rejects anything else.                   *)
(***************************************************************************)
Wasm(digest) ==
    CASE digest = "sha256:a" -> <<1, 7>>
      [] digest = "sha256:b" -> <<1, 8, 8>>
      [] OTHER -> <<1>>

BadWasm == <<9>>

from_binary(bytes) ==
    IF Len(bytes) > 0 /\ bytes[1] = 1 THEN Some(bytes) ELSE Nothing

serialize(component) == <<0>> \o component

deserialize(bytes) ==
    IF Len(bytes) > 0 /\ bytes[1] = 0 THEN Some(Tail(bytes)) ELSE Nothing

(***************************************************************************)
(* ArtifactMetadata (metadata.rs)                                          *)
(***************************************************************************)
ArtifactMetadata_new(profile, wasm_digest, artifact_bytes, ts) ==
    [ schema_version     |-> 1,
      engine_profile_id  |-> profile.engine_profile_id,
      wasmtime_version   |-> profile.wasmtime_version,
      target_triple      |-> profile.target_triple,
      cpu_policy         |-> profile.cpu_policy,
      config_fingerprint |-> profile.config_fingerprint,
      wasm_digest        |-> wasm_digest,
      artifact_bytes     |-> artifact_bytes,
      created_at         |-> ts,
      last_access_at     |-> ts,
      hit_count          |-> 0 ]

validate_for_profile_noversion(meta, profile) ==
    /\ meta.schema_version = 1
    /\ meta.engine_profile_id = profile.engine_profile_id
    /\ meta.target_triple = profile.target_triple
    /\ meta.cpu_policy = profile.cpu_policy
    /\ meta.config_fingerprint = profile.config_fingerprint

\* TRUE iff validate_for_profile returns Ok(()).
validate_for_profile(meta, profile) ==
    /\ meta.schema_version = 1
    /\ meta.engine_profile_id = profile.engine_profile_id
    /\ meta.wasmtime_version = profile.wasmtime_version
    /\ meta.target_triple = profile.target_triple
    /\ meta.cpu_policy = profile.cpu_policy
    /\ meta.config_fingerprint = profile.config_fingerprint

touch(meta, ts) ==
    [meta EXCEPT !.last_access_at = ts, !.hit_count = @ + 1]

(***************************************************************************)
(* The disk cache directory (disk.rs).                                     *)
(* Files of artifacts/ are named by the mangled digest.  A sidecar file    *)
(* holds either JSON that parses as ArtifactMetadata or something else.    *)
(***************************************************************************)
digest_to_filename(digest) ==
    CASE digest = "sha256:a" -> "sha256_a"
      [] digest = "sha256:b" -> "sha256_b"
      [] OTHER -> "-"

FileNames == {digest_to_filename(d) : d \in Digests}

\* serde_json::to_vec_pretty(meta)
to_json(meta) == [parses |-> TRUE, meta |-> meta]

\* A sidecar whose content serde_json::from_str rejects.
GarbageJson ==
    [parses |-> FALSE, meta |-> ArtifactMetadata_new(Profile, "-", 0, 0)]

EmptyDisk ==
    [ artifacts_dir |-> FALSE,
      tmp_dir       |-> FALSE,
      artifact      |-> [f \in FileNames |-> Nothing],
      meta          |-> [f \in FileNames |-> Nothing] ]

\* DiskCache::paths_for: TRUE iff it returns Ok(paths).
paths_for_nocheck(key) == TRUE

paths_for(key) == key.engine_profile_id = Profile.engine_profile_id

(***************************************************************************)
(* Tasks.  Each task runs one call at a time: a CacheManager::get_component*)
(* or a direct DiskCache call.  A step of a task is one access to shared   *)
(* state (a file system call, a MemoryCache call under its mutex, a        *)
(* singleflight map or lock operation) together with the local computation *)
(* that follows it.  Metric increments (relaxed atomics that the program   *)
(* never reads back) are folded into the neighbouring step.                *)
(***************************************************************************)
Tasks == {1, 2, 3}

IdleTask ==
    [ pc     |-> "idle",
      op     |-> "",        \* the call being run
      key    |-> NoKey,
      phase  |-> 0,         \* get_component: 1 before the guard, 2 under it
      cont   |-> "",        \* delete_entry: "try_read" or "delete" called it
      meta   |-> Nothing,   \* local ArtifactMetadata
      bytes  |-> Nothing,   \* local artifact bytes
      wasm   |-> Nothing,   \* bytes returned by produce_bytes_fn
      status |-> "",        \* how the call returned
      out    |-> Nothing,   \* the bytes or component returned
      lock   |-> 0,         \* SingleflightGuard.lock
      guard  |-> "none",    \* the OwnedMutexGuard: none, pending or held
      via    |-> "",        \* the path on which get_component returned
      reads  |-> 0,         \* disk reads this call has started
      cold   |-> FALSE,     \* the call started with no entry in either tier
      pre    |-> "",        \* try_read: the key's disk entry at call time
      prune  |-> Nothing ]  \* prune_to_limit: dry_run and the order in which
                            \* read_dir listed the directory

OffTask == [IdleTask EXCEPT !.pc = "off"]

FileOf(tk) == digest_to_filename(tk.key.wasm_digest)

\* A return that leaks the guard of a failed call.
ReturnFrom_leak(tk, status, out) ==
    [tk EXCEPT !.pc = IF tk.guard = "held" /\ status # "err"
                      THEN "sf_release" ELSE "done",
               !.status = status,
               !.out = out,
               !.cont = "",
               !.meta = Nothing,
               !.bytes = Nothing,
               !.wasm = Nothing]

\* The call returns.  Under a held guard the guard is dropped first.
ReturnFrom(tk, status, out) ==
    [tk EXCEPT !.pc = IF tk.guard = "held" THEN "sf_release" ELSE "done",
               !.status = status,
               !.out = out,
               !.cont = "",
               !.meta = Nothing,
               !.bytes = Nothing,
               !.wasm = Nothing]

\* get_component found the key in neither tier (mod.rs:140, mod.rs:172).
MissPath(tk) ==
    [tk EXCEPT !.pc = IF tk.phase = 1 THEN "sf_entry" ELSE "gc_produce",
               !.cont = "",
               !.meta = Nothing,
               !.bytes = Nothing]

\* try_read returns `kind` ("some", "none" or "err") to its caller.
AfterTryRead(tk, kind, bytes) ==
    IF tk.op = "try_read" THEN ReturnFrom(tk, kind, bytes)
    ELSE IF kind = "err"
         THEN ReturnFrom([tk EXCEPT !.via = "err_disk"], "err", Nothing)
    ELSE IF kind = "none" THEN MissPath(tk)
    ELSE [tk EXCEPT !.pc = "gc_deserialize", !.bytes = bytes, !.cont = ""]

\* delete_entry returns to try_read or to DiskCache::delete.
AfterDelete(tk) ==
    IF tk.cont = "try_read" THEN AfterTryRead(tk, "none", Nothing)
    ELSE IF tk.op = "delete" THEN ReturnFrom(tk, "ok", Nothing)
    ELSE MissPath(tk)

\* try_read found the entry inconsistent: delete_entry, then Ok(None).
DropEntry(tk) ==
    [tk EXCEPT !.pc = "del_artifact", !.cont = "try_read",
               !.meta = Nothing, !.bytes = Nothing]

SetTask(t, tk) == task' = [task EXCEPT ![t] = tk]

(***************************************************************************)
(* DiskCache::try_read (disk.rs:32-76)                                     *)
(***************************************************************************)
\* disk.rs:33-34: paths_for(key)?, meta_path.exists()
TrMetaExists(t) ==
    LET tk == task[t] IN
    /\ tk.pc = "tr_meta_exists"
    /\ SetTask(t, IF ~paths_for(tk.key) THEN AfterTryRead(tk, "err", Nothing)
                  ELSE IF disk.meta[FileOf(tk)] = Nothing
                       THEN [tk EXCEPT !.pc = "tr_orphan_exists"]
                  ELSE [tk EXCEPT !.pc = "tr_read_meta"])
    /\ UNCHANGED <<memVars, cfgVars, opVars, disk, now, metrics, sfVars, diskOps,
                   ghostVars>>

\* disk.rs:35: artifact_path.exists() when the sidecar is missing
TrOrphanExists(t) ==
    LET tk == task[t] IN
    /\ tk.pc = "tr_orphan_exists"
    /\ SetTask(t, IF disk.artifact[FileOf(tk)] # Nothing
                  THEN [tk EXCEPT !.pc = "tr_orphan_remove"]
                  ELSE AfterTryRead(tk, "none", Nothing))
    /\ UNCHANGED <<memVars, cfgVars, opVars, disk, now, metrics, sfVars, diskOps,
                   ghostVars>>

\* disk.rs:36-38: remove_file(artifact_path); return Ok(None)
TrOrphanRemove(t) ==
    LET tk == task[t] IN
    /\ tk.pc = "tr_orphan_remove"
    /\ disk' = [disk EXCEPT !.artifact[FileOf(tk)] = Nothing]
    /\ SetTask(t, AfterTryRead(tk, "none", Nothing))
    /\ UNCHANGED <<memVars, cfgVars, opVars, now, metrics, sfVars, diskOps,
                   ghostVars>>

\* disk.rs:40-60: read and parse the sidecar, validate it against the
\* profile, compare its digest with the key's.
TrReadMeta(t) ==
    LET tk   == task[t]
        file == disk.meta[FileOf(tk)]
    IN
    /\ tk.pc = "tr_read_meta"
    /\ SetTask(t, IF file = Nothing THEN DropEntry(tk)
                  ELSE IF ~Unwrap(file).parses THEN DropEntry(tk)
                  ELSE IF ~validate_for_profile(Unwrap(file).meta, Profile)
                       THEN DropEntry(tk)
                  ELSE IF Unwrap(file).meta.wasm_digest # tk.key.wasm_digest
                       THEN DropEntry(tk)
                  ELSE [tk EXCEPT !.pc = "tr_artifact_exists",
                                  !.meta = Some(Unwrap(file).meta)])
    /\ UNCHANGED <<memVars, cfgVars, opVars, disk, now, metrics, sfVars, diskOps,
                   ghostVars>>

\* disk.rs:61-64: artifact_path.exists()
TrArtifactExists(t) ==
    LET tk == task[t] IN
    /\ tk.pc = "tr_artifact_exists"
    /\ SetTask(t, IF disk.artifact[FileOf(tk)] = Nothing THEN DropEntry(tk)
                  ELSE [tk EXCEPT !.pc = "tr_read_artifact"])
    /\ UNCHANGED <<memVars, cfgVars, opVars, disk, now, metrics, sfVars, diskOps,
                   ghostVars>>

\* The size test of disk.rs:70.
SizeMatches_any(meta, bytes) == TRUE

SizeMatches(meta, bytes) == meta.artifact_bytes = Len(bytes)

\* disk.rs:65-73: fs::read(artifact_path), compare its length with the
\* sidecar's artifact_bytes.
TrReadArtifact(t) ==
    LET tk   == task[t]
        file == disk.artifact[FileOf(tk)]
    IN
    /\ tk.pc = "tr_read_artifact"
    /\ SetTask(t, IF file = Nothing THEN DropEntry(tk)
                  ELSE IF ~SizeMatches(Unwrap(tk.meta), Unwrap(file))
                       THEN DropEntry(tk)
                  ELSE [tk EXCEPT !.pc = "tr_touch", !.bytes = file])
    /\ UNCHANGED <<memVars, cfgVars, opVars, disk, now, metrics, sfVars, diskOps,
                   ghostVars>>

\* The sidecar update_access renames into place (disk.rs:219-227).
update_access_reset(meta, ts) == to_json(ArtifactMetadata_new(Profile, "-", 0, ts))

update_access(meta, ts) == to_json(touch(meta, ts))

\* disk.rs:74-75: update_access (touch, write to tmp, rename over the
\* sidecar), return Ok(Some(artifact_bytes)).
TrTouch(t) ==
    LET tk == task[t] IN
    /\ tk.pc = "tr_touch"
    /\ disk' = [disk EXCEPT
                    !.tmp_dir = TRUE,
                    !.meta[FileOf(tk)] =
                        IF disk.artifacts_dir
                        THEN Some(update_access(Unwrap(tk.meta), now))
                        ELSE @]
    /\ SetTask(t, AfterTryRead(tk, "some", tk.bytes))
    /\ UNCHANGED <<memVars, cfgVars, opVars, now, metrics, sfVars, diskOps,
                   ghostVars>>

(***************************************************************************)
(* DiskCache::delete_entry (disk.rs:229-233)                               *)
(***************************************************************************)
\* disk.rs:230: remove_file(artifact_path)
DelArtifact(t) ==
    LET tk == task[t] IN
    /\ tk.pc = "del_artifact"
    /\ disk' = [disk EXCEPT !.artifact[FileOf(tk)] = Nothing]
    /\ SetTask(t, [tk EXCEPT !.pc = "del_meta"])
    /\ IF tk.cont = "delete"
       THEN /\ written' = [written EXCEPT ![FileOf(tk)] = Nothing]
            /\ writtenAny' = [writtenAny EXCEPT ![FileOf(tk)] = Nothing]
       ELSE UNCHANGED <<written, writtenAny>>
    /\ UNCHANGED <<memVars, cfgVars, opVars, now, metrics, sfVars, diskOps,
                   sawFailure>>

\* disk.rs:231: remove_file(meta_path)
DelMeta(t) ==
    LET tk == task[t] IN
    /\ tk.pc = "del_meta"
    /\ disk' = [disk EXCEPT !.meta[FileOf(tk)] = Nothing]
    /\ SetTask(t, AfterDelete(tk))
    /\ UNCHANGED <<memVars, cfgVars, opVars, now, metrics, sfVars, diskOps,
                   ghostVars>>

(***************************************************************************)
(* DiskCache::write_atomic (disk.rs:78-112)                                *)
(***************************************************************************)
\* write_atomic returns to its caller; get_component ignores the result
\* (mod.rs:184) and goes on to the memory insert (mod.rs:186-190).
AfterWrite(tk, status) ==
    IF tk.op = "write_atomic" THEN ReturnFrom(tk, status, Nothing)
    ELSE IF memory_enabled
         THEN [tk EXCEPT !.pc = "gc_insert", !.meta = Nothing,
                         !.bytes = Nothing]
    ELSE ReturnFrom(tk, "ok", tk.out)

\* A write_atomic that does not compare the metadata's digest with the key's.
WaValidate_nodigest(t) ==
    LET tk == task[t]
        ok == /\ validate_for_profile(Unwrap(tk.meta), Profile)
              /\ paths_for(tk.key)
    IN
    /\ tk.pc = "wa_validate"
    /\ IF ok
       THEN /\ disk' = [disk EXCEPT !.artifacts_dir = TRUE, !.tmp_dir = TRUE]
            /\ SetTask(t, [tk EXCEPT !.pc = "wa_rename_artifact"])
       ELSE /\ disk' = disk
            /\ SetTask(t, AfterWrite(tk, "err"))
    /\ UNCHANGED <<memVars, cfgVars, opVars, now, metrics, sfVars, diskOps,
                   ghostVars>>

\* disk.rs:84-106: validate the metadata against the profile and the key,
\* paths_for, create artifacts/ and tmp/, write the two tmp files.
WaValidate(t) ==
    LET tk == task[t]
        ok == /\ validate_for_profile(Unwrap(tk.meta), Profile)
              /\ Unwrap(tk.meta).wasm_digest = tk.key.wasm_digest
              /\ paths_for(tk.key)
    IN
    /\ tk.pc = "wa_validate"
    /\ IF ok
       THEN /\ disk' = [disk EXCEPT !.artifacts_dir = TRUE, !.tmp_dir = TRUE]
            /\ SetTask(t, [tk EXCEPT !.pc = "wa_rename_artifact"])
       ELSE /\ disk' = disk
            /\ SetTask(t, AfterWrite(tk, "err"))
    /\ UNCHANGED <<memVars, cfgVars, opVars, now, metrics, sfVars, diskOps,
                   ghostVars>>

\* disk.rs:107: rename(tmp_artifact, artifact_path)
WaRenameArtifact(t) ==
    LET tk == task[t] IN
    /\ tk.pc = "wa_rename_artifact"
    /\ disk' = [disk EXCEPT !.artifact[FileOf(tk)] = tk.bytes]
    /\ SetTask(t, [tk EXCEPT !.pc = "wa_rename_meta"])
    /\ written' = [written EXCEPT ![FileOf(tk)] = Nothing]
    /\ writtenAny' = [writtenAny EXCEPT ![FileOf(tk)] = Nothing]
    /\ UNCHANGED <<memVars, cfgVars, opVars, now, metrics, sfVars, diskOps,
                   sawFailure>>

\* disk.rs:109-111: rename(tmp_meta, meta_path); Ok(())
WaRenameMeta(t) ==
    LET tk == task[t] IN
    /\ tk.pc = "wa_rename_meta"
    /\ disk' = [disk EXCEPT !.meta[FileOf(tk)] = Some(to_json(Unwrap(tk.meta)))]
    /\ SetTask(t, AfterWrite(tk, "ok"))
    /\ written' = [written EXCEPT ![FileOf(tk)] =
                      IF Unwrap(tk.meta).artifact_bytes = Len(Unwrap(tk.bytes))
                      THEN tk.bytes ELSE Nothing]
    /\ writtenAny' = [writtenAny EXCEPT ![FileOf(tk)] = tk.bytes]
    /\ UNCHANGED <<memVars, cfgVars, opVars, now, metrics, sfVars, diskOps,
                   sawFailure>>

(***************************************************************************)
(* Singleflight (singleflight.rs)                                          *)
(***************************************************************************)
LockIds == 1..Cardinality(AllKeys)

\* Arc::strong_count of lock object l: the map's reference, each guard's
\* `lock` field and each OwnedMutexGuard (or pending lock_owned future).
strong_count(l) ==
    Cardinality({k \in AllKeys : locks[k] = l})
      + Cardinality({u \in Tasks : task[u].lock = l})
      + Cardinality({u \in Tasks : task[u].lock = l /\ task[u].guard # "none"})

\* A singleflight table with one lock object for all keys.
SfEntry_onelock(t) ==
    LET tk == task[t]
        l  == 1
    IN
    /\ tk.pc = "sf_entry"
    /\ l \in LockIds
    /\ locks' = [locks EXCEPT ![tk.key] = l]
    /\ nextLock' = l
    /\ SetTask(t, [tk EXCEPT !.pc = "sf_lock", !.lock = l,
                             !.guard = "pending"])
    /\ UNCHANGED <<memVars, cfgVars, opVars, disk, now, metrics, mutex, diskOps,
                   ghostVars>>

\* singleflight.rs:21-26: locks.entry(key).or_insert_with(..).clone(), then
\* lock.clone().lock_owned() is polled for the first time.
SfEntry(t) ==
    LET tk == task[t]
        l  == IF locks[tk.key] # 0 THEN locks[tk.key] ELSE nextLock + 1
    IN
    /\ tk.pc = "sf_entry"
    /\ l \in LockIds
    /\ locks' = [locks EXCEPT ![tk.key] = l]
    /\ nextLock' = IF locks[tk.key] # 0 THEN nextLock ELSE nextLock + 1
    /\ SetTask(t, [tk EXCEPT !.pc = "sf_lock", !.lock = l,
                             !.guard = "pending"])
    /\ UNCHANGED <<memVars, cfgVars, opVars, disk, now, metrics, mutex, diskOps,
                   ghostVars>>

\* Whether lock_owned() can complete for lock object l.
MutexFree_always(l) == TRUE

MutexFree(l) == mutex[l] = 0

\* singleflight.rs:26-33: lock_owned().await completes.
SfLock(t) ==
    LET tk == task[t] IN
    /\ tk.pc = "sf_lock"
    /\ MutexFree(tk.lock)
    /\ mutex' = [mutex EXCEPT ![tk.lock] = t]
    /\ SetTask(t, [tk EXCEPT !.pc = "gc_mem2", !.guard = "held",
                             !.phase = 2])
    /\ UNCHANGED <<memVars, cfgVars, opVars, disk, now, metrics, locks, nextLock,
                   diskOps, ghostVars>>

\* singleflight.rs:45: self.guard = None
SfRelease(t) ==
    LET tk == task[t] IN
    /\ tk.pc = "sf_release"
    /\ mutex' = [mutex EXCEPT ![tk.lock] = 0]
    /\ SetTask(t, [tk EXCEPT !.pc = "sf_gc", !.guard = "none"])
    /\ UNCHANGED <<memVars, cfgVars, opVars, disk, now, metrics, locks, nextLock,
                   diskOps, ghostVars>>

\* singleflight.rs:46-48: remove the key when strong_count(&self.lock) == 1;
\* then the guard's own `lock` reference is dropped.
SfGc(t) ==
    LET tk == task[t] IN
    /\ tk.pc = "sf_gc"
    /\ locks' = IF strong_count(tk.lock) = 1
                THEN [locks EXCEPT ![tk.key] = 0]
                ELSE locks
    /\ SetTask(t, [tk EXCEPT !.pc = "done", !.lock = 0])
    /\ UNCHANGED <<memVars, cfgVars, opVars, disk, now, metrics, nextLock, mutex,
                   diskOps, ghostVars>>

(***************************************************************************)
(* CacheManager::get_component (mod.rs:103-191)                            *)
(***************************************************************************)
Bump(field) == [metrics EXCEPT ![field] = @ + 1]

\* mod.rs:115-117 / 147-149: the disk tier is consulted, or skipped when
\* disabled.  Returns the task and the metrics.
DiskCheck(tk, m) ==
    IF disk_enabled
    THEN [ task    |-> [tk EXCEPT !.pc = "tr_meta_exists",
                                  !.reads = @ + 1],
           metrics |-> [m EXCEPT !.disk_reads = @ + 1] ]
    ELSE [ task |-> MissPath(tk), metrics |-> m ]

\* MemCheck without the memory lookup under the guard.
MemCheck_norecheck(t, tk) ==
    LET r == MemoryCache_get(memory, tk.key) IN
    IF memory_enabled /\ tk.phase = 1
    THEN /\ memory' = r.state
         /\ IF IsSome(r.result)
            THEN /\ metrics' = Bump("memory_hits")
                 /\ SetTask(t, ReturnFrom([tk EXCEPT !.via = "mem1"],
                                          "ok", r.result))
            ELSE /\ metrics' = DiskCheck(tk, metrics).metrics
                 /\ SetTask(t, DiskCheck(tk, metrics).task)
    ELSE /\ memory' = memory
         /\ metrics' = DiskCheck(tk, metrics).metrics
         /\ SetTask(t, DiskCheck(tk, metrics).task)

\* MemCheck that counts the memory hit but goes on to the disk tier.
MemCheck_fallthrough(t, tk) ==
    LET r == MemoryCache_get(memory, tk.key) IN
    IF memory_enabled
    THEN /\ memory' = r.state
         /\ IF IsSome(r.result)
            THEN /\ metrics' = DiskCheck(tk, Bump("memory_hits")).metrics
                 /\ SetTask(t, DiskCheck([tk EXCEPT !.via = "mem1"],
                                         metrics).task)
            ELSE /\ metrics' = DiskCheck(tk, metrics).metrics
                 /\ SetTask(t, DiskCheck(tk, metrics).task)
    ELSE /\ memory' = memory
         /\ metrics' = DiskCheck(tk, metrics).metrics
         /\ SetTask(t, DiskCheck(tk, metrics).task)

\* mod.rs:109-117 / 141-149: memory lookup, then the disk tier.
MemCheck(t, tk) ==
    LET r == MemoryCache_get(memory, tk.key) IN
    IF memory_enabled
    THEN /\ memory' = r.state
         /\ IF IsSome(r.result)
            THEN /\ metrics' = Bump("memory_hits")
                 /\ SetTask(t, ReturnFrom(
                        [tk EXCEPT !.via = IF tk.phase = 1 THEN "mem1"
                                           ELSE "mem2"],
                        "ok", r.result))
            ELSE /\ metrics' = DiskCheck(tk, metrics).metrics
                 /\ SetTask(t, DiskCheck(tk, metrics).task)
    ELSE /\ memory' = memory
         /\ metrics' = DiskCheck(tk, metrics).metrics
         /\ SetTask(t, DiskCheck(tk, metrics).task)

\* Keys passed to get_component.
MgrKeys == {ArtifactKey("P1", "sha256:a"), ArtifactKey("P1", "sha256:b"),
            ArtifactKey("P2", "sha256:a")}

\* The key all tasks may ask for; only the last task also asks for others.
SharedKey == ArtifactKey("P1", "sha256:a")
LastTask == CHOOSE t \in Tasks : \A u \in Tasks : u <= t
KeysOf(t) == IF t = LastTask THEN MgrKeys ELSE {SharedKey}

HasDiskEntry(key) ==
    \/ disk.artifact[digest_to_filename(key.wasm_digest)] # Nothing
    \/ disk.meta[digest_to_filename(key.wasm_digest)] # Nothing

\* get_component is called: mod.rs:109-117.
GcCall(t) ==
    /\ task[t].pc = "idle"
    /\ \E key \in KeysOf(t) :
          MemCheck(t, [task[t] EXCEPT
                          !.op = "get_component", !.key = key, !.phase = 1,
                          !.cold = /\ key \notin DOMAIN memory.entries
                                   /\ ~HasDiskEntry(key)])
    /\ UNCHANGED <<max_bytes, lfu_protect_hits, memOps, lastMem, cfgVars, opVars,
                   disk, now, sfVars, diskOps, ghostVars>>

\* The re-check under the guard: mod.rs:141-149.
GcRecheck(t) ==
    /\ task[t].pc = "gc_mem2"
    /\ MemCheck(t, task[t])
    /\ UNCHANGED <<max_bytes, lfu_protect_hits, memOps, lastMem, cfgVars, opVars,
                   disk, now, sfVars, diskOps, ghostVars>>

\* mod.rs:119-136 / 151-168: deserialize what try_read returned; on success
\* count a disk hit, insert into memory and return; on failure delete the
\* entry and fall through.
GcDeserialize(t) ==
    LET tk == task[t]
        c  == deserialize(Unwrap(tk.bytes))
    IN
    /\ tk.pc = "gc_deserialize"
    /\ IF IsSome(c)
       THEN /\ metrics' = Bump("disk_hits")
            /\ memory' = IF memory_enabled
                         THEN MemoryCache_insert(memory, max_bytes,
                                lfu_protect_hits, tk.key, Unwrap(c),
                                Len(Unwrap(tk.bytes)), FALSE)
                         ELSE memory
            /\ SetTask(t, ReturnFrom(
                    [tk EXCEPT !.via = IF tk.phase = 1 THEN "disk1"
                                       ELSE "disk2"],
                    "ok", c))
       ELSE /\ metrics' = metrics
            /\ memory' = memory
            /\ SetTask(t, [tk EXCEPT !.pc = "del_artifact", !.cont = "delete",
                                     !.meta = Nothing, !.bytes = Nothing])
    /\ UNCHANGED <<max_bytes, lfu_protect_hits, memOps, lastMem, cfgVars, opVars,
                   disk, now, sfVars, diskOps, ghostVars>>

\* What produce_bytes_fn may return: Err, the key's binary, or bytes that
\* do not compile.
ProducerResults(key) == {Nothing, Some(Wasm(key.wasm_digest)), Some(BadWasm)}

\* The `?` of mod.rs:172 and mod.rs:174: the error is returned at once.
FailCompile_caching(tk, via) ==
    [tk EXCEPT !.pc = "gc_insert", !.via = via, !.wasm = Some(BadWasm),
               !.out = Some(BadWasm)]

FailCompile(tk, via) ==
    ReturnFrom([tk EXCEPT !.via = via], "err", Nothing)

\* mod.rs:172-185: produce the bytes, count the compile, compile, serialize
\* and build the metadata.
GcProduce(t) ==
    LET tk == task[t] IN
    /\ tk.pc = "gc_produce"
    /\ \E r \in ProducerResults(tk.key) :
        IF r = Nothing
        THEN /\ metrics' = metrics
             /\ SetTask(t, FailCompile(tk, "err_produce"))
             /\ sawFailure' = sawFailure \cup
                    {u \in Tasks : task[u].pc = "sf_lock"
                                    /\ task[u].lock = tk.lock}
        ELSE IF from_binary(Unwrap(r)) = Nothing
        THEN /\ metrics' = Bump("compiles")
             /\ SetTask(t, FailCompile(tk, "err_compile"))
             /\ sawFailure' = sawFailure \cup
                    {u \in Tasks : task[u].pc = "sf_lock"
                                    /\ task[u].lock = tk.lock}
        ELSE /\ metrics' = Bump("compiles")
             /\ sawFailure' = sawFailure
             /\ SetTask(t,
                  IF disk_enabled
                  THEN LET ser == serialize(Unwrap(from_binary(Unwrap(r))))
                       IN [tk EXCEPT
                             !.pc = "wa_validate",
                             !.via = "compile",
                             !.wasm = r,
                             !.out = from_binary(Unwrap(r)),
                             !.bytes = Some(ser),
                             !.meta = Some(ArtifactMetadata_new(Profile,
                                        tk.key.wasm_digest, Len(ser), now))]
                  ELSE AfterWrite([tk EXCEPT !.via = "compile", !.wasm = r,
                                             !.out = from_binary(Unwrap(r))],
                                  "ok"))
    /\ UNCHANGED <<memVars, cfgVars, opVars, disk, now, sfVars, diskOps, written,
                   writtenAny>>

\* mod.rs:186-190: insert into memory, estimated by the raw bytes' length.
GcInsert(t) ==
    LET tk == task[t] IN
    /\ tk.pc = "gc_insert"
    /\ memory' = MemoryCache_insert(memory, max_bytes, lfu_protect_hits,
                    tk.key, Unwrap(tk.out), Len(Unwrap(tk.wasm)), FALSE)
    /\ SetTask(t, ReturnFrom(tk, "ok", tk.out))
    /\ UNCHANGED <<max_bytes, lfu_protect_hits, memOps, lastMem, cfgVars, opVars,
                   disk, now, metrics, sfVars, diskOps, ghostVars>>

(***************************************************************************)
(* Directories a cache can be constructed over.                            *)
(***************************************************************************)
SerializedOf(digest) == serialize(Unwrap(from_binary(Wasm(digest))))

\* The sidecar an earlier CacheManager with the same profile wrote.
ValidMeta(digest) ==
    ArtifactMetadata_new(Profile, digest, Len(SerializedOf(digest)), 0)

\* Sidecars that differ from the valid one in a single field.
BrokenMetas(digest) ==
    { [ValidMeta(digest) EXCEPT !.schema_version = 2],
      [ValidMeta(digest) EXCEPT !.engine_profile_id = "P2"],
      [ValidMeta(digest) EXCEPT !.wasmtime_version = "wt2"],
      [ValidMeta(digest) EXCEPT !.target_triple = "aarch64-linux"],
      [ValidMeta(digest) EXCEPT !.cpu_policy = "baseline"],
      [ValidMeta(digest) EXCEPT !.config_fingerprint = "other"],
      [ValidMeta(digest) EXCEPT !.wasm_digest = "sha256:other"],
      [ValidMeta(digest) EXCEPT !.artifact_bytes = @ + 1] }

SidecarChoices(digest) ==
    {Nothing, Some(GarbageJson)}
        \cup {Some(to_json(m)) : m \in {ValidMeta(digest)} \cup BrokenMetas(digest)}

\* An artifact file: absent, intact, truncated, or of the right length but
\* not a serialized component.
ArtifactChoices(digest) ==
    {Nothing, Some(SerializedOf(digest)), Some(<<0, 1>>), Some(<<5, 5, 5>>)}

DiskWith(digest, sidecar, artifact) ==
    [ artifacts_dir |-> (sidecar # Nothing \/ artifact # Nothing),
      tmp_dir       |-> (sidecar # Nothing \/ artifact # Nothing),
      artifact      |-> [f \in FileNames |->
                            IF f = digest_to_filename(digest) THEN artifact
                            ELSE Nothing],
      meta          |-> [f \in FileNames |->
                            IF f = digest_to_filename(digest) THEN sidecar
                            ELSE Nothing] ]

DiskInitStates ==
    {DiskWith("sha256:a", s, a) :
        s \in SidecarChoices("sha256:a"), a \in ArtifactChoices("sha256:a")}

(***************************************************************************)
(* Direct DiskCache calls (SpecDisk): one caller, one call at a time.      *)
(***************************************************************************)
\* The state of a key's disk entry, as the consistency conditions of
\* spec 4.2 list them; "foreign" when the key belongs to another profile.
EntryState(key) ==
    LET f == digest_to_filename(key.wasm_digest)
        s == disk.meta[f]
        a == disk.artifact[f]
    IN  IF key.engine_profile_id # Profile.engine_profile_id THEN "foreign"
        ELSE IF s = Nothing /\ a = Nothing THEN "absent"
        ELSE IF /\ s # Nothing
                /\ Unwrap(s).parses
                /\ Unwrap(s).meta.schema_version = 1
                /\ Unwrap(s).meta.engine_profile_id = Profile.engine_profile_id
                /\ Unwrap(s).meta.wasmtime_version = Profile.wasmtime_version
                /\ Unwrap(s).meta.target_triple = Profile.target_triple
                /\ Unwrap(s).meta.cpu_policy = Profile.cpu_policy
                /\ Unwrap(s).meta.config_fingerprint = Profile.config_fingerprint
                /\ Unwrap(s).meta.wasm_digest = key.wasm_digest
                /\ a # Nothing
                /\ Unwrap(s).meta.artifact_bytes = Len(Unwrap(a))
             THEN "consistent"
        ELSE "inconsistent"

MaxDiskOps == 3         \* direct DiskCache calls per behaviour

DiskKeys == MgrKeys

WriteBytes(key) == {SerializedOf(key.wasm_digest), <<5, 5, 5>>}

WriteMetas(key, bytes) ==
    LET m == ArtifactMetadata_new(Profile, key.wasm_digest, Len(bytes), now)
    IN  { m,
          [m EXCEPT !.artifact_bytes = @ + 1],
          [m EXCEPT !.wasmtime_version = "wt2"],
          [m EXCEPT !.wasm_digest = "sha256:other"] }

QuietMemory ==
    /\ max_bytes = 0
    /\ lfu_protect_hits = 0
    /\ memory = MemoryStateDefault
    /\ memOps = 0
    /\ lastMem = [op |-> "new", key |-> NoKey, pinned |-> FALSE,
                  result |-> Nothing]

QuietManager ==
    /\ now = 0
    /\ metrics = [memory_hits |-> 0, disk_hits |-> 0, disk_reads |-> 0,
                  compiles |-> 0]
    /\ locks = [k \in AllKeys |-> 0]
    /\ nextLock = 0
    /\ mutex = [l \in LockIds |-> 0]
    /\ diskOps = 0
    /\ written = [f \in FileNames |-> Nothing]
    /\ writtenAny = [f \in FileNames |-> Nothing]
    /\ sawFailure = {}

InitDisk ==
    /\ QuietOperator
    /\ QuietMemory
    /\ QuietManager
    /\ memory_enabled = FALSE
    /\ disk_enabled = TRUE
    /\ disk_max_bytes = Nothing
    /\ hashing = NotHashing
    /\ disk \in DiskInitStates
    /\ task = [t \in Tasks |-> IF t = 1 THEN IdleTask ELSE OffTask]

\* DiskCache::try_read(key) is called.
StartTryRead(t) ==
    /\ task[t].pc = "idle"
    /\ diskOps < MaxDiskOps
    /\ \E key \in DiskKeys :
          SetTask(t, [IdleTask EXCEPT !.pc = "tr_meta_exists",
                                      !.op = "try_read", !.key = key,
                                      !.pre = EntryState(key)])
    /\ diskOps' = diskOps + 1
    /\ UNCHANGED <<memVars, cfgVars, opVars, disk, now, metrics, sfVars, ghostVars>>

\* DiskCache::write_atomic(key, bytes, meta) is called.
StartWriteAtomic(t) ==
    /\ task[t].pc = "idle"
    /\ diskOps < MaxDiskOps
    /\ \E key \in DiskKeys :
       \E bytes \in WriteBytes(key) :
       \E meta \in WriteMetas(key, bytes) :
          SetTask(t, [IdleTask EXCEPT !.pc = "wa_validate",
                                      !.op = "write_atomic", !.key = key,
                                      !.bytes = Some(bytes),
                                      !.meta = Some(meta)])
    /\ diskOps' = diskOps + 1
    /\ UNCHANGED <<memVars, cfgVars, opVars, disk, now, metrics, sfVars, ghostVars>>

\* DiskCache::delete(key) is called: disk.rs:214-217 up to delete_entry.
StartDelete(t) ==
    /\ task[t].pc = "idle"
    /\ diskOps < MaxDiskOps
    /\ \E key \in DiskKeys :
          SetTask(t, IF paths_for(key)
                     THEN [IdleTask EXCEPT !.pc = "del_artifact",
                                           !.op = "delete", !.key = key,
                                           !.cont = "delete"]
                     ELSE [IdleTask EXCEPT !.pc = "done", !.op = "delete",
                                           !.key = key, !.status = "err"])
    /\ diskOps' = diskOps + 1
    /\ UNCHANGED <<memVars, cfgVars, opVars, disk, now, metrics, sfVars, ghostVars>>

\* The caller takes the result and is ready for its next call.
Return(t) ==
    /\ task[t].pc = "done"
    /\ SetTask(t, IdleTask)
    /\ UNCHANGED <<memVars, cfgVars, opVars, disk, now, metrics, sfVars, diskOps,
                   ghostVars>>

DiskSteps(t) ==
    \/ TrMetaExists(t)
    \/ TrOrphanExists(t)
    \/ TrOrphanRemove(t)
    \/ TrReadMeta(t)
    \/ TrArtifactExists(t)
    \/ TrReadArtifact(t)
    \/ TrTouch(t)
    \/ DelArtifact(t)
    \/ DelMeta(t)
    \/ WaValidate(t)
    \/ WaRenameArtifact(t)
    \/ WaRenameMeta(t)

NextDisk ==
    \E t \in Tasks :
        \/ StartTryRead(t)
        \/ StartWriteAtomic(t)
        \/ StartDelete(t)
        \/ Return(t)
        \/ DiskSteps(t)

SpecDisk == InitDisk /\ [][NextDisk]_vars

(***************************************************************************)
(* Concurrent get_component calls on one CacheManager (SpecMgr): every     *)
(* task makes one call.                                                    *)
(***************************************************************************)
\* CacheConfig settings explored: memory_enabled, disk_enabled,
\* memory_max_bytes.
MgrConfigs ==
    { <<FALSE, FALSE, 0>>, <<TRUE, FALSE, 0>>, <<TRUE, FALSE, 2>>,
      <<FALSE, TRUE, 0>>, <<TRUE, TRUE, 0>>, <<TRUE, TRUE, 2>> }

\* What the cache directory holds when the manager is constructed.
MgrDiskInit ==
    { EmptyDisk,
      DiskWith("sha256:a", Some(to_json(ValidMeta("sha256:a"))),
               Some(SerializedOf("sha256:a"))),
      DiskWith("sha256:a", Some(to_json(ValidMeta("sha256:a"))),
               Some(<<5, 5, 5>>)),
      DiskWith("sha256:a",
               Some(to_json([ValidMeta("sha256:a") EXCEPT
                                !.wasmtime_version = "wt2"])),
               Some(SerializedOf("sha256:a"))) }

InitMgr ==
    /\ QuietOperator
    /\ QuietManager
    /\ \E c \in MgrConfigs :
        /\ memory_enabled = c[1]
        /\ disk_enabled = c[2]
        /\ disk_max_bytes = Nothing
        /\ hashing = NotHashing
        /\ max_bytes = c[3]
    /\ lfu_protect_hits = 3
    /\ memory = MemoryStateDefault
    /\ memOps = 0
    /\ lastMem = [op |-> "new", key |-> NoKey, pinned |-> FALSE,
                  result |-> Nothing]
    /\ disk \in (IF disk_enabled THEN MgrDiskInit ELSE {EmptyDisk})
    /\ task = [t \in Tasks |-> IdleTask]

NextMgr ==
    \E t \in Tasks :
        \/ GcCall(t)
        \/ GcRecheck(t)
        \/ GcDeserialize(t)
        \/ SfEntry(t)
        \/ SfLock(t)
        \/ GcProduce(t)
        \/ GcInsert(t)
        \/ SfRelease(t)
        \/ SfGc(t)
        \/ DiskSteps(t)

SpecMgr == InitMgr /\ [][NextMgr]_vars

(***************************************************************************)
(* Direct MemoryCache calls (SpecMem)                                      *)
(***************************************************************************)
MaxBytesChoices == {0, 3}
LfuChoices == {0, 1, 2}

InitMem ==
    /\ max_bytes \in MaxBytesChoices
    /\ lfu_protect_hits \in LfuChoices
    /\ memory = MemoryStateDefault
    /\ memOps = 0
    /\ lastMem = [op |-> "new", key |-> NoKey, pinned |-> FALSE,
                  result |-> Nothing]
    /\ QuietManager
    /\ QuietOperator
    /\ memory_enabled = TRUE
    /\ disk_enabled = FALSE
    /\ disk_max_bytes = Nothing
    /\ hashing = NotHashing
    /\ disk = EmptyDisk
    /\ task = [t \in Tasks |-> OffTask]

MemInsertCall ==
    /\ memOps < MaxMemOps
    /\ \E key \in MemKeys, size \in 1..MaxEntrySize, pinned \in BOOLEAN :
        /\ memory' = MemoryCache_insert(memory, max_bytes, lfu_protect_hits,
                                        key, Wasm(key.wasm_digest), size, pinned)
        /\ lastMem' = [op |-> "insert", key |-> key, pinned |-> pinned,
                       result |-> Nothing]
    /\ memOps' = memOps + 1
    /\ UNCHANGED <<max_bytes, lfu_protect_hits, cfgVars, opVars, disk, now, metrics,
                   sfVars, task, diskOps, ghostVars>>

MemGetCall ==
    /\ memOps < MaxMemOps
    /\ \E key \in MemKeys :
        LET r == MemoryCache_get(memory, key)
        IN  /\ memory' = r.state
            /\ lastMem' = [op |-> "get", key |-> key, pinned |-> FALSE,
                           result |-> r.result]
    /\ memOps' = memOps + 1
    /\ UNCHANGED <<max_bytes, lfu_protect_hits, cfgVars, opVars, disk, now, metrics,
                   sfVars, task, diskOps, ghostVars>>

NextMem == MemInsertCall \/ MemGetCall

SpecMem == InitMem /\ [][NextMem]_vars

(***************************************************************************)
(* C3: after an insert returns, total_bytes <= max_bytes or every entry    *)
(* remaining in the cache is pinned.  Stated for a cache constructed with  *)
(* a byte limit (max_bytes > 0; evict_if_needed treats 0 as "no limit").   *)
(***************************************************************************)
AllRemainingPinned == \A k \in DOMAIN memory.entries : memory.entries[k].pinned

C3_InsertWithinBudgetOrAllPinned ==
    (max_bytes > 0 /\ lastMem.op = "insert")
        => (memory.total_bytes <= max_bytes \/ AllRemainingPinned)

(***************************************************************************)
(* C4: a pinned entry is never removed by eviction: whatever call is made  *)
(* other than a replacing insert of the same key, a pinned entry is still  *)
(* present (and pinned) afterwards, and a get of it returns its component. *)
(***************************************************************************)
C4_PinnedSurvives ==
    [][\A k \in DOMAIN memory.entries :
          (memory.entries[k].pinned
              /\ ~(lastMem'.op = "insert" /\ lastMem'.key = k))
          => /\ k \in DOMAIN memory'.entries
             /\ memory'.entries[k].pinned
             /\ memory'.entries[k].component = memory.entries[k].component
             /\ (lastMem'.op = "get" /\ lastMem'.key = k
                    => lastMem'.result = Some(memory.entries[k].component))]_vars

\* A pinned entry sits in a cache that is over max_bytes after an eviction
\* has taken place.
C4_Witness ==
    /\ max_bytes > 0
    /\ memory.evictions > 0
    /\ memory.total_bytes > max_bytes
    /\ \E k \in DOMAIN memory.entries : memory.entries[k].pinned

(***************************************************************************)
(* C5: disk round trip.  After write_atomic(k, b, m) returned Ok, with     *)
(* m.artifact_bytes equal to the length of b, every try_read(k) returns    *)
(* Some(b), the access-time touch included, until the entry is deleted or  *)
(* overwritten.                                                            *)
(***************************************************************************)
TryReadReturned(t) == task[t].pc = "done" /\ task[t].op = "try_read"

C5_RoundTrip ==
    \A t \in Tasks :
        (/\ TryReadReturned(t)
         /\ task[t].key.engine_profile_id = Profile.engine_profile_id
         /\ written[FileOf(task[t])] # Nothing)
        => (task[t].status = "some" /\ task[t].out = written[FileOf(task[t])])

\* C5 as first stated: the same for any metadata write_atomic accepted.
C5_RoundTripAnyMeta ==
    \A t \in Tasks :
        (/\ TryReadReturned(t)
         /\ task[t].key.engine_profile_id = Profile.engine_profile_id
         /\ writtenAny[FileOf(task[t])] # Nothing)
        => (task[t].status = "some"
                /\ task[t].out = writtenAny[FileOf(task[t])])

\* A second try_read after a write has returned the written bytes: the
\* sidecar has been touched twice.
C5_Witness ==
    \E t \in Tasks :
        /\ TryReadReturned(t)
        /\ written[FileOf(task[t])] # Nothing
        /\ task[t].out = written[FileOf(task[t])]
        /\ disk.meta[FileOf(task[t])] # Nothing
        /\ Unwrap(disk.meta[FileOf(task[t])]).meta.hit_count = 2

(***************************************************************************)
(* C6: try_read of a key (of the cache's profile) whose disk entry is      *)
(* inconsistent in any of the listed ways returns Ok(None), and afterwards *)
(* neither the artifact nor the sidecar of the key exists.                 *)
(***************************************************************************)
C6_InconsistentEntryIsMissAndGone ==
    \A t \in Tasks :
        (TryReadReturned(t) /\ task[t].pre \in {"inconsistent", "absent"})
        => /\ task[t].status = "none"
           /\ disk.artifact[FileOf(task[t])] = Nothing
           /\ disk.meta[FileOf(task[t])] = Nothing

\* A try_read that started on an entry with files on disk has returned.
C6_Witness ==
    \E t \in Tasks :
        /\ TryReadReturned(t)
        /\ task[t].pre = "inconsistent"
        /\ task[t].status = "none"

(***************************************************************************)
(* Observations on get_component calls                                     *)
(***************************************************************************)
AllReturned == \A t \in Tasks : task[t].pc = "done"

\* The calls that invoked produce_bytes_fn.
Producers == {t \in Tasks : task[t].via \in {"compile", "err_produce",
                                              "err_compile"}}

ErrVias == {"err_produce", "err_compile"}

NoProducerFailed == \A t \in Tasks : task[t].via \notin ErrVias

SameKeyColdCalls ==
    /\ AllReturned
    /\ \A t \in Tasks : task[t].key = SharedKey /\ task[t].cold

ExactlyOneCompile ==
    /\ Cardinality(Producers) = 1
    /\ metrics.compiles = 1
    /\ \A t \in Tasks : task[t].status = "ok" /\ IsSome(task[t].out)

(***************************************************************************)
(* C1: N concurrent get_component calls for the same key (of the manager's *)
(* profile) that all start with cold caches invoke produce_bytes_fn        *)
(* exactly once, raise metrics.compiles by exactly one and all return a    *)
(* component, provided the memory tier is enabled and evicts nothing       *)
(* during the calls and produce_bytes_fn and compilation succeed.          *)
(***************************************************************************)
C1_SingleCompile ==
    (/\ SameKeyColdCalls
     /\ NoProducerFailed
     /\ memory_enabled
     /\ memory.evictions = 0)
    => ExactlyOneCompile

\* C1 as first stated (for producers and compilations that succeed).
C1_SingleCompileAnyConfig ==
    (SameKeyColdCalls /\ NoProducerFailed) => ExactlyOneCompile

\* All calls started cold, one of them compiled, the others found the
\* component in memory after waiting for the key's lock.
C1_Witness ==
    /\ SameKeyColdCalls
    /\ memory_enabled
    /\ memory.evictions = 0
    /\ Cardinality(Producers) = 1
    /\ Cardinality({t \in Tasks : task[t].via = "mem2"})
            = Cardinality(Tasks) - 1

(***************************************************************************)
(* C2: at most one get_component call per key is between a completed      *)
(* Singleflight::acquire and the drop of its guard.                        *)
(***************************************************************************)
C2_MutualExclusionPerKey ==
    \A t, u \in Tasks :
        (t # u /\ task[t].guard = "held" /\ task[u].guard = "held")
        => task[t].key # task[u].key

\* One caller holds the guard of a key while another waits for it.
C2_Witness ==
    \E t, u \in Tasks :
        /\ task[t].guard = "held"
        /\ task[u].pc = "sf_lock"
        /\ task[u].key = task[t].key

(***************************************************************************)
(* C7: bytes reach Component::deserialize only after a read through a key  *)
(* of the manager's engine_profile_id whose sidecar matched the manager's  *)
(* profile in every field; a call with a key of another profile never      *)
(* reads or writes a cache file and fails in the disk tier.                *)
(***************************************************************************)
FileSteps ==
    {"tr_orphan_exists", "tr_orphan_remove", "tr_read_meta",
     "tr_artifact_exists", "tr_read_artifact", "tr_touch", "del_artifact",
     "del_meta", "wa_validate", "wa_rename_artifact", "wa_rename_meta",
     "gc_deserialize"}

C7_DeserializeOnlyOwnProfile ==
    \A t \in Tasks :
        /\ task[t].pc = "gc_deserialize"
            => /\ task[t].key.engine_profile_id = Profile.engine_profile_id
               /\ IsSome(task[t].meta)
               /\ Unwrap(task[t].meta).engine_profile_id
                    = Profile.engine_profile_id
               /\ Unwrap(task[t].meta).wasmtime_version
                    = Profile.wasmtime_version
               /\ Unwrap(task[t].meta).target_triple = Profile.target_triple
               /\ Unwrap(task[t].meta).cpu_policy = Profile.cpu_policy
               /\ Unwrap(task[t].meta).config_fingerprint
                    = Profile.config_fingerprint
        /\ (disk_enabled /\ task[t].op = "get_component"
              /\ task[t].key.engine_profile_id # Profile.engine_profile_id)
            => /\ task[t].pc \notin FileSteps
               /\ (task[t].pc = "done"
                     => task[t].status = "err" /\ task[t].via = "err_disk")

\* One call is about to deserialize what it read while a call with a key
\* of another profile has failed.
C7_Witness ==
    \E t, u \in Tasks :
        /\ task[t].pc = "gc_deserialize"
        /\ task[u].pc = "done"
        /\ task[u].via = "err_disk"

(***************************************************************************)
(* C8: a call whose produce_bytes_fn or compilation fails returns the      *)
(* error, and from the failure on the call itself changes neither tier:    *)
(* it inserts nothing into the memory cache, writes no artifact and no     *)
(* sidecar, and never prepared a write.                                    *)
(***************************************************************************)
C8_FailingCallChangesNoTier ==
    [][\A t \in Tasks :
          (task'[t] # task[t]
              /\ (task[t].via \in ErrVias \/ task'[t].via \in ErrVias))
          => /\ memory' = memory
             /\ disk' = disk
             /\ task'[t].via \in ErrVias
             /\ task'[t].status = "err"
             /\ task'[t].out = Nothing
             /\ task'[t].bytes = Nothing
             /\ task'[t].meta = Nothing]_vars

NoFilesOf(d, key) ==
    key.engine_profile_id = Profile.engine_profile_id
    => /\ d.artifact[digest_to_filename(key.wasm_digest)] = Nothing
       /\ d.meta[digest_to_filename(key.wasm_digest)] = Nothing

\* C8 as first stated: while the failed call still holds the key's guard
\* the memory cache has no entry for the key and the directory holds
\* neither an artifact nor a sidecar of it.
C8_NoEntryAtFailure ==
    \A t \in Tasks :
        (task[t].via \in ErrVias /\ task[t].guard = "held")
        => /\ task[t].key \notin DOMAIN memory.entries
           /\ NoFilesOf(disk, task[t].key)

\* A call has failed and returned with both tiers enabled.
C8_Witness ==
    \E t \in Tasks :
        /\ task[t].pc = "done"
        /\ task[t].via \in ErrVias
        /\ memory_enabled
        /\ disk_enabled

(***************************************************************************)
(* C10: tier order.  A call that finds the key in memory on its first      *)
(* lookup counts a memory hit and reads no disk; one that finds it on the  *)
(* re-check under the guard counts a memory hit and reads the disk no      *)
(* further; a call whose disk read returns an entry that deserializes      *)
(* counts a disk hit; neither kind calls produce_bytes_fn or counts a      *)
(* compile.                                                                *)
(***************************************************************************)
ViaCount(S) == Cardinality({t \in Tasks : task[t].via \in S})

RECURSIVE SumReads(_)
SumReads(S) ==
    IF S = {} THEN 0
    ELSE LET t == CHOOSE x \in S : TRUE
         IN  task[t].reads + SumReads(S \ {t})

MetricsMatchCalls ==
    /\ metrics.memory_hits = ViaCount({"mem1", "mem2"})
    /\ metrics.disk_hits = ViaCount({"disk1", "disk2"})
    /\ metrics.compiles = ViaCount({"compile", "err_compile"})
    /\ metrics.disk_reads = SumReads(Tasks)

FirstPhaseReads == IF disk_enabled THEN 1 ELSE 0

C10_TierOrder ==
    /\ MetricsMatchCalls
    /\ \A t \in Tasks :
        /\ task[t].via = "mem1" => task[t].reads = 0
        /\ task[t].via = "mem2" => task[t].reads = FirstPhaseReads
        /\ task[t].via = "disk1" => task[t].reads = 1
        /\ task[t].via = "disk2" => task[t].reads = 2

\* C10 as first stated: no call that finds the key in memory has read the
\* disk.
C10_MemoryHitNeverReadsDisk ==
    /\ MetricsMatchCalls
    /\ \A t \in Tasks :
        task[t].via \in {"mem1", "mem2"} => task[t].reads = 0

\* Over a directory an earlier manager wrote, one call was served from
\* disk and another from memory; nothing was compiled.
C10_Witness ==
    \E t, u \in Tasks :
        /\ task[t].pc = "done" /\ task[t].via = "disk1" /\ ~task[t].cold
        /\ task[u].pc = "done" /\ task[u].via = "mem1"
        /\ metrics.compiles = 0

(***************************************************************************)
(* get_component under a scheduler that keeps running every started call.  *)
(* The calls are tokio tasks: the runtime polls every task that can make    *)
(* progress, and tokio's Mutex hands the lock to its waiters in FIFO order, *)
(* so a call that can take a step eventually takes one.  Starting a call    *)
(* is left to the caller and gets no fairness.                             *)
(***************************************************************************)
MgrFairConfigs == { <<TRUE, FALSE, 0>>, <<TRUE, TRUE, 0>> }

InitMgrFair ==
    /\ QuietOperator
    /\ QuietManager
    /\ \E c \in MgrFairConfigs :
        /\ memory_enabled = c[1]
        /\ disk_enabled = c[2]
        /\ disk_max_bytes = Nothing
        /\ hashing = NotHashing
        /\ max_bytes = c[3]
    /\ lfu_protect_hits = 3
    /\ memory = MemoryStateDefault
    /\ memOps = 0
    /\ lastMem = [op |-> "new", key |-> NoKey, pinned |-> FALSE,
                  result |-> Nothing]
    /\ disk = EmptyDisk
    /\ task = [t \in Tasks |-> IdleTask]

CallStep(t) ==
    \/ GcRecheck(t)
    \/ GcDeserialize(t)
    \/ SfEntry(t)
    \/ SfLock(t)
    \/ GcProduce(t)
    \/ GcInsert(t)
    \/ SfRelease(t)
    \/ SfGc(t)
    \/ DiskSteps(t)

SpecMgrFair ==
    /\ InitMgrFair
    /\ [][NextMgr]_vars
    /\ \A t \in Tasks : WF_vars(CallStep(t))

(***************************************************************************)
(* C9: a failed compile releases the key.  When the holder of a key's      *)
(* guard fails in produce_bytes_fn or compilation, the guard is released,  *)
(* and every caller that was waiting for the key returns: it acquires the  *)
(* guard and then either finds the component a peer cached meanwhile or    *)
(* runs its own produce_bytes_fn; an error it returns is its own           *)
(* producer's or compiler's.                                               *)
(***************************************************************************)
WaiterOutcomes == {"mem2", "disk2", "compile", "err_produce", "err_compile"}

C9_FailedCompileReleasesKey ==
    /\ [](\A t \in sawFailure :
            task[t].pc = "done"
            => /\ task[t].via \in WaiterOutcomes
               /\ task[t].status = "err" <=> task[t].via \in ErrVias)
    /\ \A t \in Tasks :
        /\ (task[t].via \in ErrVias /\ task[t].guard = "held")
              ~> (task[t].guard = "none")
        /\ (t \in sawFailure) ~> (task[t].pc = "done")

\* C9 as first stated: every caller that was waiting when the holder
\* failed runs its own produce_bytes_fn.
C9_EveryWaiterProduces ==
    \A t \in sawFailure :
        task[t].pc = "done"
        => task[t].via \in {"compile", "err_produce", "err_compile"}

\* Two callers waited while the holder failed; one of them then compiled
\* and the other found the component in memory.
C9_Witness ==
    \E t, u \in sawFailure :
        /\ task[t].pc = "done" /\ task[t].via = "compile"
        /\ task[u].pc = "done" /\ task[u].via = "mem2"

(***************************************************************************)
(* Operator registry (operator_registry.rs)                                *)
(***************************************************************************)
MaxPacks == 3           \* packs a registry is built over

\* A provider declaration as registry.operator_metadata() yields it.
ProviderDecl(pid, ptype, ops, component_ref, world, config_ref) ==
    [provider_id |-> pid, provider_type |-> ptype, ops |-> ops,
     runtime |-> [component_ref |-> component_ref, world |-> world,
                  export |-> "run"],
     pack_ref |-> Nothing, config_schema_ref |-> config_ref,
     state_schema_ref |-> Nothing]

\* What pack.provider_registry_optional() returns: Ok(Some(registry)),
\* Ok(None) or Err.
PackRuntime(pack_id, kind, providers) ==
    [pack_id |-> pack_id, version |-> "0.1.0", kind |-> kind,
     providers |-> providers]

\* format!("{}@{}", pack_id, version) as a sequence of its three parts.
computed_ref(pack) == <<pack.pack_id, "@", pack.version>>

OperatorBinding(provider, op_id, pack_ref, digest, pack_priority) ==
    [provider_id |-> provider.provider_id,
     provider_type |-> provider.provider_type,
     op_id |-> op_id,
     runtime |-> provider.runtime,
     pack_ref |-> pack_ref,
     pack_digest |-> digest,
     config_schema_ref |-> provider.config_schema_ref,
     state_schema_ref |-> provider.state_schema_ref,
     pack_priority |-> pack_priority]

\* An insert that keeps the entry already present.
MapInsert_keepfirst(index, key, op_id, binding) ==
    (key :> ((IF key \in DOMAIN index THEN index[key] ELSE EmptyFn)
                @@ (op_id :> binding)))
        @@ index

\* index.entry(key).or_default().insert(op_id, binding): HashMap::insert
\* overwrites a present (key, op_id).
MapInsert(index, key, op_id, binding) ==
    (key :> ((op_id :> binding)
                @@ (IF key \in DOMAIN index THEN index[key] ELSE EmptyFn)))
        @@ index

\* operator_registry.rs:74-83: write the binding into both indexes.
InsertBinding(reg, binding) ==
    [reg EXCEPT
        !.per_provider_id =
            IF IsSome(binding.provider_id)
            THEN MapInsert(@, Unwrap(binding.provider_id), binding.op_id,
                           binding)
            ELSE @,
        !.per_provider_type =
            MapInsert(@, binding.provider_type, binding.op_id, binding)]

\* operator_registry.rs:60-84: the loop over a provider's ops.
RECURSIVE BuildOps(_, _, _, _, _, _)
BuildOps(reg, provider, i, pack_ref, digest, pack_priority) ==
    IF i > Len(provider.ops) THEN reg
    ELSE BuildOps(
            InsertBinding(reg, OperatorBinding(provider, provider.ops[i],
                                               pack_ref, digest,
                                               pack_priority)),
            provider, i + 1, pack_ref, digest, pack_priority)

\* operator_registry.rs:55-85: the loop over a pack's providers.
RECURSIVE BuildProviders(_, _, _, _, _)
BuildProviders(reg, pack, j, digest, pack_priority) ==
    IF j > Len(pack.providers) THEN reg
    ELSE LET provider == pack.providers[j]
             pack_ref == IF IsSome(provider.pack_ref)
                         THEN Unwrap(provider.pack_ref)
                         ELSE computed_ref(pack)
         IN  BuildProviders(
                BuildOps(reg, provider, 1, pack_ref, digest, pack_priority),
                pack, j + 1, digest, pack_priority)

\* operator_registry.rs:42-86: the loop over the packs; pack_priority is the
\* zero-based position that enumerate() yields.
RECURSIVE BuildPacks(_, _, _)
BuildPacks(reg, packs, k) ==
    IF k > Len(packs) THEN reg
    ELSE LET pack == packs[k][1]
             digest == packs[k][2]
         IN  IF pack.kind = "err" THEN [reg EXCEPT !.built = "err"]
             ELSE IF pack.kind = "none" THEN BuildPacks(reg, packs, k + 1)
             ELSE BuildPacks(BuildProviders(reg, pack, 1, digest, k - 1),
                             packs, k + 1)

OperatorRegistry_build(packs) ==
    BuildPacks([built |-> "ok", per_provider_id |-> EmptyFn,
                per_provider_type |-> EmptyFn], packs, 1)

ResolveIn(index, key, op_id) ==
    IF key \in DOMAIN index
    THEN IF op_id \in DOMAIN index[key]
         THEN [ok |-> TRUE, binding |-> Some(index[key][op_id]), err |-> ""]
         ELSE [ok |-> FALSE, binding |-> Nothing, err |-> "OpNotFound"]
    ELSE [ok |-> FALSE, binding |-> Nothing, err |-> "ProviderNotFound"]

\* A resolve that falls back to provider_type when the id is unknown.
OperatorRegistry_resolve_fallback(reg, provider_id, provider_type, op_id) ==
    IF IsSome(provider_id)
          /\ (Unwrap(provider_id) \in DOMAIN reg.per_provider_id
                \/ provider_type = Nothing)
    THEN ResolveIn(reg.per_provider_id, Unwrap(provider_id), op_id)
    ELSE IF IsSome(provider_type)
    THEN ResolveIn(reg.per_provider_type, Unwrap(provider_type), op_id)
    ELSE [ok |-> FALSE, binding |-> Nothing, err |-> "ProviderNotFound"]

\* operator_registry.rs:94-113
OperatorRegistry_resolve(reg, provider_id, provider_type, op_id) ==
    IF IsSome(provider_id)
    THEN ResolveIn(reg.per_provider_id, Unwrap(provider_id), op_id)
    ELSE IF IsSome(provider_type)
    THEN ResolveIn(reg.per_provider_type, Unwrap(provider_type), op_id)
    ELSE [ok |-> FALSE, binding |-> Nothing, err |-> "ProviderNotFound"]

(***************************************************************************)
(* Registries built over sequences of packs and queried with resolve.      *)
(***************************************************************************)
\* The cache side while only the operator side runs.
QuietCache ==
    /\ QuietMemory
    /\ QuietManager
    /\ memory_enabled = FALSE
    /\ disk_enabled = FALSE
    /\ disk_max_bytes = Nothing
    /\ hashing = NotHashing
    /\ disk = EmptyDisk
    /\ task = [t \in Tasks |-> OffTask]

cacheVars == <<memVars, cfgVars, disk, now, metrics, sfVars, task, diskOps,
               ghostVars>>

PackPool ==
    { <<PackRuntime("a", "some",
            <<ProviderDecl(Some("p1"), "t1", <<"echo", "run">>, "c1",
                           "greentic:provider-core@1.0.0", Nothing)>>),
        Some("sha256:da")>>,
      <<PackRuntime("b", "some",
            <<ProviderDecl(Nothing, "t1", <<"echo">>, "c2",
                           "greentic:component@0.6.0", Nothing),
              ProviderDecl(Some("p2"), "t2", <<"echo">>, "c3",
                           "greentic:provider-core@1.0.0", Nothing)>>),
        Nothing>>,
      <<PackRuntime("c", "some",
            <<ProviderDecl(Some("p1"), "t2", <<"run">>, "c4",
                           "greentic:provider-core@1.0.0", Nothing),
              ProviderDecl(Some("p1"), "t1", <<"echo">>, "c5",
                           "greentic:provider-core@1.0.0", Nothing)>>),
        Some("sha256:dc")>>,
      <<PackRuntime("n", "none", << >>), Nothing>>,
      <<PackRuntime("e", "err", << >>), Nothing>> }

PackSeqs == UNION {[1..n -> PackPool] : n \in 0..MaxPacks}

ResolveIds == {Nothing, Some("p1"), Some("p2"), Some("p9")}
ResolveTypes == {Nothing, Some("t1"), Some("t2"), Some("t9")}
ResolveOps == {"echo", "run", "nope"}

NotBuilt ==
    [built |-> "no", per_provider_id |-> EmptyFn,
     per_provider_type |-> EmptyFn]

InitReg ==
    /\ QuietCache
    /\ \E packs \in PackSeqs : runtime = [packs |-> packs]
    /\ registry = NotBuilt
    /\ contract_cache = ContractCacheStateDefault
    /\ op_metrics = OperatorMetricsDefault
    /\ inv = Nothing

\* OperatorRegistry::build(packs)
RegBuild ==
    /\ registry.built = "no"
    /\ registry' = OperatorRegistry_build(runtime.packs)
    /\ UNCHANGED <<cacheVars, runtime, contract_cache, op_metrics, inv>>

\* registry.resolve(provider_id, provider_type, op_id)
RegResolve ==
    /\ registry.built = "ok"
    /\ \E pid \in ResolveIds, pty \in ResolveTypes, op \in ResolveOps :
        inv' = Some([provider_id |-> pid, provider_type |-> pty,
                     op_id |-> op,
                     result |-> OperatorRegistry_resolve(registry, pid, pty,
                                                         op)])
    /\ UNCHANGED <<cacheVars, runtime, registry, contract_cache, op_metrics>>

NextReg == RegBuild \/ RegResolve

SpecReg == InitReg /\ [][NextReg]_vars

(***************************************************************************)
(* C12: resolve with provider_id set is decided by the by-provider-id      *)
(* index alone (provider_type is ignored, no fallback): the binding if the *)
(* provider has the op, OpNotFound if the provider exists without the op,  *)
(* ProviderNotFound if it is absent; with only provider_type set the same  *)
(* holds of the by-provider-type index; with neither, ProviderNotFound.    *)
(***************************************************************************)
DecidedBy(index, key, op_id, result) ==
    /\ (key \in DOMAIN index /\ op_id \in DOMAIN index[key])
         => /\ result.ok
            /\ result.binding = Some(index[key][op_id])
    /\ (key \in DOMAIN index /\ op_id \notin DOMAIN index[key])
         => ~result.ok /\ result.err = "OpNotFound"
    /\ key \notin DOMAIN index
         => ~result.ok /\ result.err = "ProviderNotFound"

C12_ResolveByIdThenType ==
    IsSome(inv) =>
        LET call == Unwrap(inv) IN
        /\ IsSome(call.provider_id)
             => DecidedBy(registry.per_provider_id,
                          Unwrap(call.provider_id), call.op_id, call.result)
        /\ (call.provider_id = Nothing /\ IsSome(call.provider_type))
             => DecidedBy(registry.per_provider_type,
                          Unwrap(call.provider_type), call.op_id,
                          call.result)
        /\ (call.provider_id = Nothing /\ call.provider_type = Nothing)
             => ~call.result.ok /\ call.result.err = "ProviderNotFound"

\* An unknown provider_id was given together with a provider_type that has
\* the op: the answer is ProviderNotFound.
C12_Witness ==
    /\ IsSome(inv)
    /\ Unwrap(inv).provider_id = Some("p9")
    /\ Unwrap(inv).provider_type = Some("t1")
    /\ "t1" \in DOMAIN registry.per_provider_type
    /\ Unwrap(inv).op_id \in DOMAIN registry.per_provider_type["t1"]
    /\ Unwrap(inv).result.err = "ProviderNotFound"

(***************************************************************************)
(* C13: when several packs declare the same (provider key, op_id), the     *)
(* binding of the latest pack in the input sequence is the one kept, so    *)
(* its pack_priority is the highest index among the declaring packs;       *)
(* pack_priority is the declaring pack's position in the sequence.         *)
(***************************************************************************)
KeyOf(provider, by_id) ==
    IF by_id THEN provider.provider_id ELSE Some(provider.provider_type)

\* The pack at position k (counted from 0) declares op_id under the key.
Declares(packs, k, by_id, key, op_id) ==
    LET pack == packs[k + 1][1] IN
    /\ pack.kind = "some"
    /\ \E j \in 1..Len(pack.providers) :
        /\ KeyOf(pack.providers[j], by_id) = Some(key)
        /\ \E i \in 1..Len(pack.providers[j].ops) :
              pack.providers[j].ops[i] = op_id

Declaring(packs, by_id, key, op_id) ==
    {k \in 0..(Len(packs) - 1) : Declares(packs, k, by_id, key, op_id)}

IndexKeys == {"p1", "p2", "p9", "t1", "t2", "t9"}

LatestPackWins(index, by_id) ==
    \A key \in IndexKeys, op_id \in ResolveOps :
        LET ks == Declaring(runtime.packs, by_id, key, op_id) IN
        IF ks = {}
        THEN ~(key \in DOMAIN index /\ op_id \in DOMAIN index[key])
        ELSE /\ key \in DOMAIN index
             /\ op_id \in DOMAIN index[key]
             /\ \A k \in ks : index[key][op_id].pack_priority >= k
             /\ index[key][op_id].pack_priority \in ks
             /\ index[key][op_id].pack_ref
                  = computed_ref(runtime.packs[
                        index[key][op_id].pack_priority + 1][1])
             /\ index[key][op_id].pack_digest
                  = runtime.packs[index[key][op_id].pack_priority + 1][2]

C13_LaterPackOverwrites ==
    registry.built = "ok"
    => /\ LatestPackWins(registry.per_provider_id, TRUE)
       /\ LatestPackWins(registry.per_provider_type, FALSE)

\* Three packs were given, the first and the last declare (t1, echo), and
\* the binding kept carries the last position.
C13_Witness ==
    /\ registry.built = "ok"
    /\ Len(runtime.packs) = 3
    /\ Declaring(runtime.packs, FALSE, "t1", "echo") = {0, 2}
    /\ registry.per_provider_type["t1"]["echo"].pack_priority = 2

(***************************************************************************)
(* C14: when several packs declare the same (provider_type, op_id) or      *)
(* (provider_id, op_id), the registry keeps the entry of the pack with the *)
(* lowest pack_priority.                                                   *)
(***************************************************************************)
LowestPackWins(index, by_id) ==
    \A key \in IndexKeys, op_id \in ResolveOps :
        LET ks == Declaring(runtime.packs, by_id, key, op_id) IN
        ks # {}
        => /\ key \in DOMAIN index
           /\ op_id \in DOMAIN index[key]
           /\ \A k \in ks : index[key][op_id].pack_priority <= k

C14_LowestPriorityWins ==
    registry.built = "ok"
    => /\ LowestPackWins(registry.per_provider_id, TRUE)
       /\ LowestPackWins(registry.per_provider_type, FALSE)

(***************************************************************************)
(* Strings and JSON values of the operator pipeline (runner/operator.rs,   *)
(* runner/schema_validator.rs).  A string the code trims, prefixes, joins  *)
(* or rewrites is a sequence of tokens; the token " " is whitespace.  A    *)
(* JSON value is a tagged record; an object holds a function from keys to  *)
(* values (serde_json's Map), iterated in key order.                       *)
(***************************************************************************)
RECURSIVE TrimStart(_)
TrimStart(s) == IF s # << >> /\ s[1] = " " THEN TrimStart(Tail(s)) ELSE s

RECURSIVE TrimEnd(_)
TrimEnd(s) ==
    IF s # << >> /\ s[Len(s)] = " "
    THEN TrimEnd(SubSeq(s, 1, Len(s) - 1))
    ELSE s

\* str::trim
trim(s) == TrimEnd(TrimStart(s))

\* str::starts_with
starts_with(s, prefix) ==
    /\ Len(s) >= Len(prefix)
    /\ SubSeq(s, 1, Len(prefix)) = prefix

\* str::to_ascii_lowercase, on the flag spellings the requests use.
LowerToken(tok) ==
    CASE tok = "SKIP-OUTPUT-VALIDATE" -> "skip-output-validate"
      [] tok = "Permissive-Schema" -> "permissive-schema"
      [] OTHER -> tok

to_ascii_lowercase(s) == [i \in 1..Len(s) |-> LowerToken(s[i])]

\* str::replace(from, to) on tokens
replace(s, from, to) == [i \in 1..Len(s) |-> IF s[i] = from THEN to ELSE s[i]]

FLAG_SKIP_OUTPUT_VALIDATE == <<"skip-output-validate">>
FLAG_PERMISSIVE_SCHEMA == <<"permissive-schema">>

\* ExecutionValidationOptions::default() with each recognised flag applied;
\* a flag only ever switches its option off.
validation_options_from_flags(flags) ==
    LET norm(i) == to_ascii_lowercase(trim(flags[i])) IN
    [validate_output |->
        ~\E i \in 1..Len(flags) : norm(i) = FLAG_SKIP_OUTPUT_VALIDATE,
     strict |->
        ~\E i \in 1..Len(flags) : norm(i) = FLAG_PERMISSIVE_SCHEMA]

normalize_operation_id(op_id) ==
    LET normalized == trim(op_id) IN
    IF normalized = << >> THEN <<"run">> ELSE normalized

normalize_sha256_hash(value) ==
    LET trimmed == trim(value) IN
    IF starts_with(trimmed, <<"sha256:">>)
    THEN trimmed
    ELSE <<"sha256:">> \o trimmed

derive_output_schema_ref(config_schema_ref) ==
    IF config_schema_ref = Nothing
    THEN Nothing
    ELSE LET config_ref == Unwrap(config_schema_ref)
             candidate == replace(config_ref, "config", "output")
         IN IF candidate = config_ref THEN Nothing ELSE Some(candidate)

JNull == [t |-> "null"]
JStr(s) == [t |-> "str", s |-> s]
JNum(n) == [t |-> "num", n |-> n]
JArr(a) == [t |-> "arr", a |-> a]
JObj(m) == [t |-> "obj", m |-> m]

is_null(v) == v.t = "null"
is_object(v) == v.t = "obj"

\* Value::get(key) on an object, None otherwise
JGet(v, key) ==
    IF is_object(v) /\ key \in DOMAIN v.m THEN Some(v.m[key]) ELSE Nothing

\* Map::insert
JInsert(m, key, value) == (key :> value) @@ m

\* The keys the model's objects use, in the byte order a BTreeMap keeps.
KeyOrder ==
    <<"_attachments", "additionalProperties", "alias", "allOf",
      "config_schema", "format", "id", "input", "input_schema", "key",
      "message", "name", "new_state", "operations", "output",
      "output_schema", "pattern", "patternProperties", "properties",
      "required", "schema", "token", "type">>

SortedKeys(m) == SelectSeq(KeyOrder, LAMBDA k : k \in DOMAIN m)

\* serde_cbor::to_vec / from_slice: bytes are empty, the encoding of a value,
\* or not an encoding of anything.
EmptyBytes == [k |-> "empty"]
BadBytes == [k |-> "bad"]
cbor_to_vec(v) == [k |-> "cbor", v |-> v]

decode_request_payload(bytes) ==
    CASE bytes.k = "empty" -> [ok |-> TRUE, value |-> JNull]
      [] bytes.k = "cbor" -> [ok |-> TRUE, value |-> bytes.v]
      [] OTHER -> [ok |-> FALSE, value |-> JNull]

(***************************************************************************)
(* Schema validator (runner/schema_validator.rs).  The jsonschema crate is *)
(* modelled on the Draft 7 keywords the schemas here use: type, required,  *)
(* properties, additionalProperties: false and pattern.                    *)
(***************************************************************************)
UnsupportedKeys == <<"pattern", "format", "patternProperties">>

RECURSIVE collect_unsupported_constraints(_, _)
RECURSIVE CollectValues(_, _, _, _)
RECURSIVE CollectItems(_, _, _)

\* for (idx, item) in items.iter().enumerate()
CollectItems(items, idx, next) ==
    IF idx >= Len(items)
    THEN << >>
    ELSE collect_unsupported_constraints(items[idx + 1],
                                         next \o <<"/", ToString(idx)>>)
           \o CollectItems(items, idx + 1, next)

\* for (key, value) in map
CollectValues(map, keys, i, path) ==
    IF i > Len(keys)
    THEN << >>
    ELSE LET key == keys[i]
             value == map[key]
             next == path \o <<"/", key>>
             here == CASE value.t = "obj" ->
                            collect_unsupported_constraints(value, next)
                       [] value.t = "arr" -> CollectItems(value.a, 0, next)
                       [] OTHER -> << >>
         IN here \o CollectValues(map, keys, i + 1, path)

collect_unsupported_constraints(schema, path) ==
    IF ~is_object(schema)
    THEN << >>
    ELSE LET map == schema.m
             present == SelectSeq(UnsupportedKeys,
                                  LAMBDA key : key \in DOMAIN map)
         IN [i \in 1..Len(present) |-> path \o <<"/", present[i]>>]
              \o CollectValues(map, SortedKeys(map), 1, path)

TypeNames == {"object", "string", "number", "integer", "array", "null",
              "boolean"}

TypeMatches(name, v) ==
    CASE name = "object" -> v.t = "obj"
      [] name = "string" -> v.t = "str"
      [] name = "number" -> v.t = "num"
      [] name = "integer" -> v.t = "num"
      [] name = "array" -> v.t = "arr"
      [] name = "null" -> v.t = "null"
      [] OTHER -> FALSE

\* The strings the regular expression ^[a-z]+$ accepts, among those used.
LowerCaseWords == {"ping", "abc", "pong"}

PatternMatches(pattern, s) ==
    IF pattern = "^[a-z]+$" THEN s \in LowerCaseWords ELSE TRUE

\* jsonschema::options().with_draft(Draft7).build(schema) succeeds
RECURSIVE compile_validator(_)
compile_validator(schema) ==
    IF ~is_object(schema)
    THEN schema.t = "bool"
    ELSE LET map == schema.m IN
         /\ "type" \in DOMAIN map
              => map["type"].t = "str" /\ map["type"].s \in TypeNames
         /\ "required" \in DOMAIN map
              => /\ map["required"].t = "arr"
                 /\ \A i \in 1..Len(map["required"].a) :
                        map["required"].a[i].t = "str"
         /\ "pattern" \in DOMAIN map => map["pattern"].t = "str"
         /\ "properties" \in DOMAIN map
              => /\ is_object(map["properties"])
                 /\ \A k \in DOMAIN map["properties"].m :
                        compile_validator(map["properties"].m[k])

RECURSIVE iter_errors(_, _, _)
RECURSIVE PropertyErrors(_, _, _, _, _)

PropertyErrors(props, instance, keys, i, path) ==
    IF i > Len(keys)
    THEN << >>
    ELSE (IF keys[i] \in DOMAIN instance.m
          THEN iter_errors(props[keys[i]], instance.m[keys[i]],
                           path \o <<"/", keys[i]>>)
          ELSE << >>)
           \o PropertyErrors(props, instance, keys, i + 1, path)

\* validator.iter_errors(instance): the instance path of every error
iter_errors(schema, instance, path) ==
    IF ~is_object(schema)
    THEN << >>
    ELSE LET map == schema.m
             typeErr ==
                IF "type" \in DOMAIN map
                      /\ ~TypeMatches(map["type"].s, instance)
                THEN <<path>> ELSE << >>
             required ==
                IF "required" \in DOMAIN map /\ is_object(instance)
                THEN SelectSeq(map["required"].a,
                               LAMBDA r : r.s \notin DOMAIN instance.m)
                ELSE << >>
             requiredErr == [i \in 1..Len(required) |-> path]
             props ==
                IF "properties" \in DOMAIN map THEN map["properties"].m
                ELSE EmptyFn
             propErr ==
                IF is_object(instance)
                THEN PropertyErrors(props, instance, SortedKeys(props), 1,
                                    path)
                ELSE << >>
             extra ==
                IF "additionalProperties" \in DOMAIN map
                      /\ map["additionalProperties"] = [t |-> "bool",
                                                        b |-> FALSE]
                      /\ is_object(instance)
                THEN SelectSeq(SortedKeys(instance.m),
                               LAMBDA k : k \notin DOMAIN props)
                ELSE << >>
             extraErr == [i \in 1..Len(extra) |-> path]
             patternErr ==
                IF "pattern" \in DOMAIN map /\ instance.t = "str"
                      /\ ~PatternMatches(map["pattern"].s, instance.s)
                THEN <<path>> ELSE << >>
         IN typeErr \o requiredErr \o propErr \o extraErr \o patternErr

SchemaValidationIssue(code, path, message_key) ==
    [code |-> code, path |-> path, message_key |-> message_key]

\* A validator that skips the strict-mode scan.
validate_json_instance_lenient(schema, instance, strict) ==
    IF ~compile_validator(schema)
    THEN <<SchemaValidationIssue("invalid_schema", <<"/">>,
                                 "runner.schema.invalid_schema")>>
    ELSE LET errs == iter_errors(schema, instance, << >>) IN
         [i \in 1..Len(errs) |->
            SchemaValidationIssue("schema_validation",
                IF errs[i] = << >> THEN <<"/">> ELSE errs[i],
                "runner.schema.validation_failed")]

validate_json_instance(schema, instance, strict) ==
    LET unsupported == collect_unsupported_constraints(schema, << >>) IN
    IF strict /\ unsupported # << >>
    THEN [i \in 1..Len(unsupported) |->
            SchemaValidationIssue("unsupported_schema_constraint",
                                  unsupported[i],
                                  "runner.schema.unsupported_constraint")]
    ELSE IF ~compile_validator(schema)
    THEN <<SchemaValidationIssue("invalid_schema", <<"/">>,
                                 "runner.schema.invalid_schema")>>
    ELSE LET errs == iter_errors(schema, instance, << >>) IN
         [i \in 1..Len(errs) |->
            SchemaValidationIssue("schema_validation",
                IF errs[i] = << >> THEN <<"/">> ELSE errs[i],
                "runner.schema.validation_failed")]

(***************************************************************************)
(* Contract cache (runner/contract_cache.rs): a map and an LRU deque (the  *)
(* front is index 1) behind one mutex; get and insert each take the lock   *)
(* once.                                                                   *)
(***************************************************************************)
ContractSnapshot_new(resolved_digest, component_id, operation_id, validate_output, strict) ==
    [resolved_digest |-> resolved_digest,
     component_id |-> component_id,
     operation_id |-> operation_id,
     validate_output |-> validate_output,
     strict |-> strict,
     describe_hash |-> Nothing,
     schema_hash |-> Nothing]

\* "sha256:" and 64 hex digits
Sha256Len == 71

\* String::len: a token of an identifier counts one byte, a hash its length.
estimated_bytes(snapshot) ==
    128 + Len(snapshot.resolved_digest) + Len(snapshot.component_id)
        + Len(snapshot.operation_id)
        + (IF IsSome(snapshot.describe_hash) THEN Sha256Len ELSE 0)
        + (IF IsSome(snapshot.schema_hash) THEN Sha256Len ELSE 0)

\* An eviction that spares the key at the front of the LRU, the one just
\* inserted.
RECURSIVE ContractCache_evict_if_needed_sparefront(_, _)
ContractCache_evict_if_needed_sparefront(state, budget) ==
    IF budget = 0 \/ state.total_bytes <= budget \/ Len(state.lru) <= 1
    THEN state
    ELSE LET candidate == state.lru[Len(state.lru)]
             popped == [state EXCEPT
                          !.lru = SubSeq(state.lru, 1, Len(state.lru) - 1)]
         IN ContractCache_evict_if_needed_sparefront(
              IF candidate \in DOMAIN state.entries
              THEN [popped EXCEPT
                      !.entries = RemoveKey(state.entries, candidate),
                      !.total_bytes =
                          @ - state.entries[candidate].bytes_estimate,
                      !.evictions = @ + 1]
              ELSE popped,
              budget)

\* touch_lru and remove_lru of contract_cache.rs:162-173 are those of the
\* memory cache.
RECURSIVE ContractCache_evict_if_needed(_, _)
ContractCache_evict_if_needed(state, budget) ==
    IF budget = 0 \/ state.total_bytes <= budget \/ state.lru = << >>
    THEN state
    ELSE LET candidate == state.lru[Len(state.lru)]
             popped == [state EXCEPT
                          !.lru = SubSeq(state.lru, 1, Len(state.lru) - 1)]
         IN ContractCache_evict_if_needed(
              IF candidate \in DOMAIN state.entries
              THEN [popped EXCEPT
                      !.entries = RemoveKey(state.entries, candidate),
                      !.total_bytes =
                          @ - state.entries[candidate].bytes_estimate,
                      !.evictions = @ + 1]
              ELSE popped,
              budget)

\* A get that counts a hit as a miss.
ContractCache_get_misscount(state, key) ==
    IF key \in DOMAIN state.entries
    THEN [state |-> [state EXCEPT !.misses = @ + 1,
                                  !.lru = touch_lru(state.lru, key)],
          snapshot |-> Some(state.entries[key].snapshot)]
    ELSE [state |-> [state EXCEPT !.misses = @ + 1],
          snapshot |-> Nothing]

\* ContractCache::get: the state after the call and the snapshot returned
ContractCache_get(state, key) ==
    IF key \in DOMAIN state.entries
    THEN [state |-> [state EXCEPT !.hits = @ + 1,
                                  !.lru = touch_lru(state.lru, key)],
          snapshot |-> Some(state.entries[key].snapshot)]
    ELSE [state |-> [state EXCEPT !.misses = @ + 1],
          snapshot |-> Nothing]

ContractCache_insert(state, budget, key, snapshot) ==
    LET removed ==
            IF key \in DOMAIN state.entries
            THEN [state EXCEPT
                    !.entries = RemoveKey(state.entries, key),
                    !.total_bytes = @ - state.entries[key].bytes_estimate,
                    !.lru = remove_lru(state.lru, key)]
            ELSE state
        bytes_estimate == estimated_bytes(snapshot)
        inserted ==
            [removed EXCEPT
                !.entries = (key :> [snapshot |-> snapshot,
                                     bytes_estimate |-> bytes_estimate])
                              @@ removed.entries,
                !.total_bytes = @ + bytes_estimate,
                !.lru = <<key>> \o removed.lru]
    IN ContractCache_evict_if_needed(inserted, budget)

ContractCache_stats(state) ==
    [hits |-> state.hits, misses |-> state.misses,
     evictions |-> state.evictions,
     entries |-> Cardinality(DOMAIN state.entries),
     total_bytes |-> state.total_bytes]

(***************************************************************************)
(* Responses and diagnostics (runner/operator.rs).                         *)
(***************************************************************************)
Diagnostic(code, path, message_key, operation_id, component_id) ==
    [code |-> code, path |-> path, severity |-> "error",
     message_key |-> message_key, operation_id |-> operation_id,
     component_id |-> component_id]

OperatorResponse_ok(output) ==
    [status |-> "Ok", cbor_output |-> Some(output), error |-> Nothing]

\* An error response that keeps an (empty) encoded output beside the error.
OperatorResponse_error_withoutput(code) ==
    [status |-> "Error", cbor_output |-> Some(<< >>),
     error |-> Some([code |-> code, details_cbor |-> Nothing])]

OperatorResponse_error(code) ==
    [status |-> "Error", cbor_output |-> Nothing,
     error |-> Some([code |-> code, details_cbor |-> Nothing])]

OperatorResponse_error_with_diagnostics(code, diagnostics) ==
    [status |-> "Error", cbor_output |-> Nothing,
     error |-> Some([code |-> code,
                     details_cbor |-> Some(cbor_to_vec(diagnostics))])]

\* Issues turned into diagnostics without the prefix.
schema_issues_to_diagnostics_unrooted(issues, path_prefix, component_ref, op_id) ==
    [i \in 1..Len(issues) |->
        Diagnostic(issues[i].code, issues[i].path, issues[i].message_key,
                   Some(op_id), Some(component_ref))]

schema_issues_to_diagnostics(issues, path_prefix, component_ref, op_id) ==
    [i \in 1..Len(issues) |->
        Diagnostic(issues[i].code,
                   IF path_prefix = << >> THEN issues[i].path
                   ELSE IF issues[i].path = <<"/">> THEN path_prefix
                   ELSE path_prefix \o issues[i].path,
                   issues[i].message_key, Some(op_id), Some(component_ref))]

\* serde_cbor::to_vec of hash material: the tokens of a JSON value
RECURSIVE SerValue(_)
RECURSIVE SerFields(_, _, _)
RECURSIVE SerItems(_, _)

SerItems(items, i) ==
    IF i > Len(items) THEN << >>
    ELSE SerValue(items[i]) \o SerItems(items, i + 1)

SerFields(m, keys, i) ==
    IF i > Len(keys) THEN << >>
    ELSE <<keys[i]>> \o SerValue(m[keys[i]]) \o SerFields(m, keys, i + 1)

SerValue(v) ==
    CASE v.t = "null" -> <<"null">>
      [] v.t = "str" -> <<"s", v.s>>
      [] v.t = "num" -> <<"n", ToString(v.n)>>
      [] v.t = "bool" -> <<"b", ToString(v.b)>>
      [] v.t = "arr" -> <<"[">> \o SerItems(v.a, 1) \o <<"]">>
      [] OTHER -> <<"{">> \o SerFields(v.m, SortedKeys(v.m), 1) \o <<"}">>

\* SHA-256 taken as collision free: after the prefix, "#" opens the hex digest
\* and the hashed bytes stand for its digits.
sha256_prefixed(bytes) == <<"sha256:", "#">> \o bytes

SerOption(o) == IF IsSome(o) THEN Unwrap(o) ELSE <<"none">>

\* The (describe_hash, schema_hash) of the fallback record.
compute_contract_hashes(resolved_digest, component_ref, operation_id, world, export, input_schema, output_schema, config_schema, state_schema_ref, pack_ref) ==
    [describe_hash |->
        sha256_prefixed(resolved_digest \o component_ref \o <<world, export>>
                          \o pack_ref \o SerValue(input_schema)
                          \o SerValue(output_schema)),
     schema_hash |->
        sha256_prefixed(resolved_digest \o component_ref \o operation_id
                          \o <<world, export>> \o SerValue(input_schema)
                          \o SerValue(output_schema)
                          \o SerValue(config_schema)
                          \o SerOption(state_schema_ref))]

(***************************************************************************)
(* Contract introspection (runner/contract_introspection.rs).              *)
(***************************************************************************)
\* operation_name: the entry's "id" string, else its "name" string
operation_name(entry) ==
    LET id == JGet(entry, "id")
        name == JGet(entry, "name")
    IN IF IsSome(id) /\ Unwrap(id).t = "str" THEN Some(<<Unwrap(id).s>>)
       ELSE IF IsSome(name) /\ Unwrap(name).t = "str"
       THEN Some(<<Unwrap(name).s>>)
       ELSE Nothing

\* ops.iter().find_map(operation_name)
FirstNamed(ops) ==
    IF \E i \in 1..Len(ops) : IsSome(operation_name(ops[i]))
    THEN operation_name(ops[CHOOSE i \in 1..Len(ops) :
            /\ IsSome(operation_name(ops[i]))
            /\ \A j \in 1..(i - 1) : operation_name(ops[j]) = Nothing])
    ELSE Nothing

select_operation_from_describe(payload, requested_operation) ==
    LET operations == JGet(payload, "operations") IN
    IF operations = Nothing \/ Unwrap(operations).t # "arr"
    THEN Nothing
    ELSE LET ops == Unwrap(operations).a
             first == FirstNamed(ops)
         IN IF first = Some(requested_operation) THEN first
            ELSE IF first = Some(<<"run">>) THEN first
            ELSE IF ops = << >> THEN Nothing
            ELSE operation_name(ops[1])

extract_operation_schema(payload, operation, side) ==
    LET operations == JGet(payload, "operations") IN
    IF operations = Nothing \/ Unwrap(operations).t # "arr"
    THEN Nothing
    ELSE LET ops == Unwrap(operations).a IN
         IF ~\E i \in 1..Len(ops) : operation_name(ops[i]) = Some(operation)
         THEN Nothing
         ELSE LET op == ops[CHOOSE i \in 1..Len(ops) :
                        /\ operation_name(ops[i]) = Some(operation)
                        /\ \A j \in 1..(i - 1) :
                              operation_name(ops[j]) # Some(operation)]
                  side_obj == JGet(op, side)
              IN IF side_obj = Nothing THEN Nothing
                 ELSE IF IsSome(JGet(Unwrap(side_obj), "schema"))
                 THEN JGet(Unwrap(side_obj), "schema")
                 ELSE JGet(op, IF side = "input" THEN "input_schema"
                               ELSE "output_schema")

OrNull(o) == IF IsSome(o) THEN Unwrap(o) ELSE JNull

\* "greentic:component@0.6.0" occurs in the manifest's world
WorldIsV06(world) == world = "greentic:component@0.6.0"

\* contract_introspection.rs:71-100: the contract and its two hashes
IntrospectedContract(component_ref, world, selected, input_schema, output_schema, config_schema) ==
    [k |-> "some",
     selected_operation |-> selected,
     input_schema |-> input_schema,
     output_schema |-> output_schema,
     config_schema |-> config_schema,
     describe_hash |->
        sha256_prefixed(component_ref \o selected \o <<world>>
                          \o SerValue(input_schema)
                          \o SerValue(output_schema)),
     schema_hash |->
        sha256_prefixed(component_ref \o selected \o SerValue(input_schema)
                          \o SerValue(output_schema)
                          \o SerValue(config_schema))]

\* contract_introspection.rs:52-69
IntrospectSelected(component_ref, world, payload, selected) ==
    IF selected = Nothing
    THEN [k |-> "err"]
    ELSE IntrospectedContract(component_ref, world, Unwrap(selected),
            OrNull(extract_operation_schema(payload, Unwrap(selected),
                                            "input")),
            OrNull(extract_operation_schema(payload, Unwrap(selected),
                                            "output")),
            OrNull(JGet(payload, "config_schema")))

\* introspect_component_contract: Ok(None), Ok(Some(contract)) or Err.
\* component is the pack's record of the component: its manifest world and
\* what describe() returns.
introspect_component_contract(component, component_ref, requested_operation) ==
    IF ~WorldIsV06(component.world)
    THEN [k |-> "none"]
    ELSE IF component.describe = Nothing
    THEN [k |-> "err"]
    ELSE IntrospectSelected(component_ref, component.world,
            Unwrap(component.describe),
            select_operation_from_describe(Unwrap(component.describe),
                                           requested_operation))

(***************************************************************************)
(* Attachments (runner/operator.rs).                                       *)
(***************************************************************************)
\* AttachmentKind::from_metadata: Some([key, alias]) for a secret
AttachmentKind_from_metadata(metadata) ==
    IF metadata = Nothing \/ ~is_object(Unwrap(metadata))
    THEN Nothing
    ELSE LET m == Unwrap(metadata)
             ty == JGet(m, "type")
             key == JGet(m, "key")
             alias == JGet(m, "alias")
         IN IF ty = Nothing \/ Unwrap(ty).t # "str" THEN Nothing
            ELSE IF Unwrap(ty).s # "secret" THEN Nothing
            ELSE IF key = Nothing \/ Unwrap(key).t # "str" THEN Nothing
            ELSE Some([key |-> Unwrap(key).s,
                       alias |-> IF IsSome(alias) /\ Unwrap(alias).t = "str"
                                 THEN Unwrap(alias).s
                                 ELSE Unwrap(key).s])

\* A resolve_attachments that asks for the remaining secrets after one was
\* denied.
RECURSIVE resolve_attachments_all(_, _, _, _, _)
resolve_attachments_all(attachments, secrets, i, map, asked) ==
    IF i > Len(attachments)
    THEN [ok |-> TRUE, map |-> map, asked |-> asked]
    ELSE LET kind == AttachmentKind_from_metadata(attachments[i].metadata)
         IN IF kind = Nothing
            THEN resolve_attachments_all(attachments, secrets, i + 1, map,
                                         asked)
            ELSE IF Unwrap(kind).key \notin DOMAIN secrets
            THEN [resolve_attachments_all(attachments, secrets, i + 1, map,
                        Append(asked, Unwrap(kind).key))
                    EXCEPT !.ok = FALSE]
            ELSE resolve_attachments_all(attachments, secrets, i + 1,
                    JInsert(map, Unwrap(kind).alias,
                            JStr(secrets[Unwrap(kind).key])),
                    Append(asked, Unwrap(kind).key))

\* resolve_attachments: the map built so far, the secrets asked for, and
\* whether a secret was denied.  secrets is what get_secret answers.
RECURSIVE resolve_attachments(_, _, _, _, _)
resolve_attachments(attachments, secrets, i, map, asked) ==
    IF i > Len(attachments)
    THEN [ok |-> TRUE, map |-> map, asked |-> asked]
    ELSE LET kind == AttachmentKind_from_metadata(attachments[i].metadata)
         IN IF kind = Nothing
            THEN resolve_attachments(attachments, secrets, i + 1, map, asked)
            ELSE IF Unwrap(kind).key \notin DOMAIN secrets
            THEN [ok |-> FALSE, map |-> map,
                  asked |-> Append(asked, Unwrap(kind).key)]
            ELSE resolve_attachments(attachments, secrets, i + 1,
                    JInsert(map, Unwrap(kind).alias,
                            JStr(secrets[Unwrap(kind).key])),
                    Append(asked, Unwrap(kind).key))

\* A merge that wraps every input, objects included.
merge_input_with_attachments_wrapall(input, attachments) ==
    IF DOMAIN attachments = {}
    THEN input
    ELSE JObj(JInsert(JInsert(EmptyFn, "input", input), "_attachments",
                      JObj(attachments)))

\* operator.rs:1127-1143
merge_input_with_attachments(input, attachments) ==
    IF DOMAIN attachments = {}
    THEN input
    ELSE IF is_object(input)
    THEN JObj(JInsert(input.m, "_attachments", JObj(attachments)))
    ELSE JObj(JInsert(JInsert(EmptyFn, "input", input), "_attachments",
                      JObj(attachments)))

(***************************************************************************)
(* The tenant runtime an invocation runs against: one pack of providers,   *)
(* the components and schemas the pack holds, the secrets the tenant may   *)
(* read, the operator policy and the contract cache budget.                *)
(***************************************************************************)
ConfigRef == <<"schemas/", "config", ".json">>
PatternRef == <<"schemas/", "config", "-pattern.json">>
GoneRef == <<"schemas/", "config", "-gone.json">>

MessageSchema ==
    JObj([type |-> JStr("object"),
          required |-> JArr(<<JStr("message")>>),
          properties |-> JObj([message |-> JObj([type |-> JStr("string")])])])

PatternSchema ==
    JObj([type |-> JStr("object"),
          properties |->
            JObj([message |-> JObj([type |-> JStr("string"),
                                    pattern |-> JStr("^[a-z]+$")])])])

DescribePayload ==
    JObj([operations |->
            JArr(<<JObj([id |-> JStr("echo"),
                         input |-> JObj([schema |-> MessageSchema]),
                         output |-> JObj([schema |-> MessageSchema])])>>)])

ProviderCore == "greentic:provider-core@1.0.0"
ComponentV06 == "greentic:component@0.6.0"

Echo == <<"echo">>

FixtureProviders ==
    <<ProviderDecl(Some("dummy"), "example.dummy", <<Echo, <<"run">>>>,
                   <<"c_echo">>, ProviderCore, Some(ConfigRef)),
      ProviderDecl(Nothing, "example.badout", <<Echo>>, <<"c_badout">>,
                   ProviderCore, Some(ConfigRef)),
      ProviderDecl(Nothing, "example.badboth", <<Echo>>, <<"c_badboth">>,
                   ProviderCore, Some(ConfigRef)),
      ProviderDecl(Nothing, "example.raw", <<Echo>>, <<"c_raw">>,
                   ProviderCore, Some(ConfigRef)),
      ProviderDecl(Nothing, "example.state", <<Echo>>, <<"c_state">>,
                   ProviderCore, Nothing),
      ProviderDecl(Nothing, "example.pattern", <<Echo>>, <<"c_echo">>,
                   ProviderCore, Some(PatternRef)),
      ProviderDecl(Nothing, "example.noschema", <<Echo>>, <<"c_echo">>,
                   ProviderCore, Some(GoneRef)),
      ProviderDecl(Nothing, "example.trap", <<Echo>>, <<"c_trap">>,
                   ProviderCore, Some(ConfigRef)),
      ProviderDecl(Nothing, "example.gone", <<Echo>>, <<"c_gone">>,
                   ProviderCore, Some(ConfigRef)),
      ProviderDecl(Nothing, "example.denied", <<Echo>>, <<"c_echo">>,
                   ProviderCore, Some(ConfigRef)),
      ProviderDecl(Nothing, "example.v06", <<Echo>>, <<"c_v06">>,
                   ComponentV06, Nothing),
      ProviderDecl(Nothing, "example.v06err", <<Echo>>, <<"c_v06err">>,
                   ComponentV06, Nothing)>>

Component(digest, world, describe) ==
    [digest |-> digest, world |-> world, describe |-> describe]

FixtureComponents ==
    (<<"c_echo">> :> Component(<<"unknown">>, ProviderCore, Nothing))
    @@ (<<"c_badout">> :> Component(<<"sha256:", "d2">>, ProviderCore,
                                    Nothing))
    @@ (<<"c_badboth">> :> Component(<<"sha256:", "d2">>, ProviderCore,
                                     Nothing))
    @@ (<<"c_raw">> :> Component(<<"sha256:", "d2">>, ProviderCore, Nothing))
    @@ (<<"c_state">> :> Component(<<"sha256:", "d2">>, ProviderCore,
                                   Nothing))
    @@ (<<"c_trap">> :> Component(<<"sha256:", "d2">>, ProviderCore,
                                  Nothing))
    @@ (<<"c_v06">> :> Component(<<"sha256:", "d3">>, ComponentV06,
                                 Some(DescribePayload)))
    @@ (<<"c_v06err">> :> Component(<<"sha256:", "d3">>, ComponentV06,
                                    Nothing))

FixtureSchemas ==
    (ConfigRef :> MessageSchema)
    @@ (replace(ConfigRef, "config", "output") :> MessageSchema)
    @@ (PatternRef :> PatternSchema)

BadMessage == JObj([message |-> JNum(42)])

\* What the component returns when invoked: Ok(value) or Err.
ComponentResult(component_ref, input) ==
    CASE component_ref = <<"c_badout">> ->
            [ok |-> TRUE, value |-> JObj([output |-> BadMessage])]
      [] component_ref = <<"c_badboth">> ->
            [ok |-> TRUE,
             value |-> JObj([output |-> BadMessage,
                             new_state |-> BadMessage])]
      [] component_ref = <<"c_raw">> ->
            [ok |-> TRUE, value |-> JStr("raw")]
      [] component_ref = <<"c_state">> ->
            [ok |-> TRUE,
             value |-> JObj([output |-> JObj([message |-> JStr("pong")]),
                             new_state |-> JObj([message |-> JStr("s")])])]
      [] component_ref = <<"c_trap">> -> [ok |-> FALSE, value |-> JNull]
      [] OTHER -> [ok |-> TRUE, value |-> input]

\* The budgets of the contract cache: unbounded, below one snapshot, one
\* snapshot.
ContractBudgets == {0, 200, 300}

FixtureRuntime(budget) ==
    [tenant |-> "demo",
     packs |-> <<<<PackRuntime("a", "some", FixtureProviders),
                   Some(<<"sha256:", "da">>)>>>>,
     components |-> FixtureComponents,
     schemas |-> FixtureSchemas,
     secrets |-> [API_KEY |-> "s3cret"],
     policy |-> [denied_providers |-> {"example.denied"},
                 denied_ops |-> {<<"example.dummy", <<"run">>>>}],
     contract_cache_max_bytes |-> budget]

\* runtime.config().operator_policy
allows_provider(policy, provider_id, provider_type) ==
    provider_type \notin policy.denied_providers

allows_op(policy, provider_id, provider_type, op_id) ==
    <<provider_type, op_id>> \notin policy.denied_ops

\* runtime.resolve_component(component_ref)
resolve_component(rt, component_ref) ==
    IF component_ref \in DOMAIN rt.components
    THEN Some(rt.components[component_ref])
    ELSE Nothing

\* pack.load_schema_json(schema_ref).ok().flatten()
load_schema_json(rt, schema_ref) ==
    IF schema_ref \in DOMAIN rt.schemas
    THEN Some(rt.schemas[schema_ref])
    ELSE Nothing

\* pack_ref.split('@').next()
BeforeAt(text) ==
    IF \E i \in 1..Len(text) : text[i] = "@"
    THEN SubSeq(text, 1,
                (CHOOSE i \in 1..Len(text) :
                    text[i] = "@" /\ \A j \in 1..(i - 1) : text[j] # "@")
                  - 1)
    ELSE text

(***************************************************************************)
(* Requests: the request of the first integration test and every request   *)
(* that differs from it in at most two respects.                           *)
(***************************************************************************)
PingInput == JObj([message |-> JStr("ping")])

BaseRequest ==
    [tenant_id |-> Some("demo"),
     provider_id |-> Nothing,
     provider_type |-> Some("example.dummy"),
     pack_id |-> Nothing,
     op_id |-> Echo,
     flags |-> << >>,
     schema_hash |-> Nothing,
     payload |-> [cbor_input |-> cbor_to_vec(PingInput),
                  attachments |-> << >>]]

\* The schema_hash the fallback record of example.dummy::echo hashes to.
BaseSchemaHash ==
    compute_contract_hashes(<<"sha256:", "da">>, <<"c_echo">>, Echo,
                            ProviderCore, "run", MessageSchema,
                            MessageSchema, MessageSchema, Nothing,
                            <<"a", "@", "0.1.0">>).schema_hash

TenantChoices == {Some("demo"), Nothing, Some("other")}

SelectorChoices ==
    {<<Nothing, Some(ty)>> :
        ty \in {"example.dummy", "example.badout", "example.badboth",
                "example.raw", "example.state", "example.pattern",
                "example.noschema", "example.trap", "example.gone",
                "example.denied", "example.v06", "example.v06err",
                "example.ghost"}}
    \cup {<<Nothing, Nothing>>, <<Some("dummy"), Nothing>>,
          <<Some("ghost"), Some("example.dummy")>>}

OpChoices == {Echo, <<" ", "echo", " ">>, << >>, <<"nope">>}

FlagChoices ==
    {<< >>, <<FLAG_SKIP_OUTPUT_VALIDATE>>, <<FLAG_PERMISSIVE_SCHEMA>>,
     <<FLAG_SKIP_OUTPUT_VALIDATE, FLAG_PERMISSIVE_SCHEMA>>,
     <<<<" ", "SKIP-OUTPUT-VALIDATE">>>>, <<<<"Permissive-Schema", " ">>>>}

PackIdChoices == {Nothing, Some(<<"a">>), Some(<<"b">>)}

InputChoices ==
    {cbor_to_vec(PingInput), cbor_to_vec(BadMessage),
     cbor_to_vec(JStr("ping")), cbor_to_vec(JObj([message |-> JStr("PING")])),
     EmptyBytes, BadBytes}

Secret(key) ==
    [id |-> "att", metadata |-> Some(JObj([type |-> JStr("secret"),
                                           key |-> JStr(key),
                                           alias |-> JStr("token")]))]

AttachmentChoices ==
    {<< >>, <<Secret("API_KEY")>>, <<Secret("FORBIDDEN")>>,
     <<Secret("API_KEY"), Secret("FORBIDDEN"), Secret("API_KEY")>>,
     <<[id |-> "att", metadata |-> Some(JObj([type |-> JStr("file")]))]>>}

SchemaHashChoices ==
    {Nothing, Some(BaseSchemaHash),
     Some(<<" ">> \o Tail(BaseSchemaHash) \o <<" ">>),
     Some(<<"SHA256:">> \o Tail(BaseSchemaHash)),
     Some(<<"sha256:", "0000">>)}

\* The requests that differ from r in at most one respect.
Vary(r) ==
    {[r EXCEPT !.tenant_id = v] : v \in TenantChoices}
    \cup {[r EXCEPT !.provider_id = s[1], !.provider_type = s[2]] :
            s \in SelectorChoices}
    \cup {[r EXCEPT !.op_id = v] : v \in OpChoices}
    \cup {[r EXCEPT !.flags = v] : v \in FlagChoices}
    \cup {[r EXCEPT !.pack_id = v] : v \in PackIdChoices}
    \cup {[r EXCEPT !.payload.cbor_input = v] : v \in InputChoices}
    \cup {[r EXCEPT !.payload.attachments = v] : v \in AttachmentChoices}
    \cup {[r EXCEPT !.schema_hash = v] : v \in SchemaHashChoices}

Requests == UNION {Vary(r) : r \in Vary(BaseRequest)}

\* The requests callers send while another invocation is under way.
OverlapRequests ==
    {BaseRequest, [BaseRequest EXCEPT !.flags = <<FLAG_SKIP_OUTPUT_VALIDATE>>]}

(***************************************************************************)
(* invoke_operator (runner/operator.rs:425-999), one step per stage.  Each *)
(* caller has a frame: its position, its request, the locals of the        *)
(* function, its response, and records of what it did (the stages it ran,  *)
(* the secrets it asked for, the schema references it loaded, whether the  *)
(* component ran, and the outcome of its contract-cache lookup).           *)
(***************************************************************************)
Callers == {1, 2}

StageOrder ==
    <<"tenant_gate", "selector_gate", "resolve", "policy_gate",
      "pack_pinning", "attachments", "decode", "component_lookup",
      "contract_resolution", "input_validation", "schema_hash_preflight",
      "invoke", "output_validation", "new_state_validation", "encode",
      "done">>

\* A pipeline that checks the schema hash before it validates the input.
NextStage_hashfirst(stage) ==
    CASE stage = "contract_resolution" -> "schema_hash_preflight"
      [] stage = "schema_hash_preflight" -> "input_validation"
      [] stage = "input_validation" -> "invoke"
      [] OTHER ->
           StageOrder[(CHOOSE i \in 1..Len(StageOrder) :
                          StageOrder[i] = stage) + 1]

\* The statement that follows a stage that did not return.
NextStage(stage) ==
    StageOrder[(CHOOSE i \in 1..Len(StageOrder) : StageOrder[i] = stage) + 1]

IdleFrame ==
    [pc |-> "idle",
     request |-> BaseRequest,
     op_id |-> << >>,
     validation_options |-> [validate_output |-> TRUE, strict |-> TRUE],
     binding |-> Nothing,
     attachments |-> EmptyFn,
     input_value |-> JNull,
     component |-> Nothing,
     resolved_digest |-> << >>,
     invoke_op_id |-> << >>,
     loaded_input_schema |-> JNull,
     contract_key |-> << >>,
     contract_snapshot |-> Nothing,
     result |-> JNull,
     response |-> Nothing,
     trace |-> << >>,
     asked |-> << >>,
     loads |-> << >>,
     invoked |-> FALSE,
     lookup |-> "none"]

Ran(f, stage) == [f EXCEPT !.trace = Append(@, stage)]
Respond(f, response) == [f EXCEPT !.pc = "done", !.response = Some(response)]
Goto(f, stage) == [f EXCEPT !.pc = stage]

opSide == <<runtime, registry, contract_cache, op_metrics>>

InitOp ==
    /\ QuietCache
    /\ \E budget \in ContractBudgets : runtime = FixtureRuntime(budget)
    /\ registry = OperatorRegistry_build(runtime.packs)
    /\ contract_cache = ContractCacheStateDefault
    /\ op_metrics = OperatorMetricsDefault
    /\ inv = [c \in Callers |-> IdleFrame]

\* operator.rs:429-453: normalise, then the tenant gate
TenantGate(c) ==
    /\ inv[c].pc = "idle"
    /\ \E request \in Requests :
        /\ \/ \A d \in Callers \ {c} : inv[d].pc = "idle"
           \/ /\ request \in OverlapRequests
              /\ \A d \in Callers \ {c} : inv[d].request \in OverlapRequests
        /\ LET op_id == normalize_operation_id(request.op_id)
               f == Ran([inv[c] EXCEPT
                            !.request = request,
                            !.op_id = op_id,
                            !.validation_options =
                                validation_options_from_flags(request.flags)],
                        "tenant_gate")
           IN inv' = [inv EXCEPT ![c] =
                IF IsSome(request.tenant_id)
                      /\ Unwrap(request.tenant_id) # runtime.tenant
                THEN Respond(f, OperatorResponse_error_with_diagnostics(
                        "TENANT_NOT_ALLOWED",
                        <<Diagnostic("tenant_mismatch", <<"/", "tenant_id">>,
                                     "runner.operator.tenant_mismatch",
                                     Some(op_id), Nothing)>>))
                ELSE Goto(f, NextStage("tenant_gate"))]
    /\ UNCHANGED <<cacheVars, opSide>>

\* operator.rs:455-471
SelectorGate(c) ==
    /\ inv[c].pc = "selector_gate"
    /\ LET f == Ran(inv[c], "selector_gate")
           request == f.request
       IN inv' = [inv EXCEPT ![c] =
            IF request.provider_id = Nothing /\ request.provider_type = Nothing
            THEN Respond(f, OperatorResponse_error_with_diagnostics(
                    "INVALID_REQUEST",
                    <<Diagnostic("missing_provider_selector",
                                 <<"/", "provider_id">>,
                                 "runner.operator.missing_provider_selector",
                                 Some(f.op_id), Nothing)>>))
            ELSE Goto(f, NextStage("selector_gate"))]
    /\ UNCHANGED <<cacheVars, opSide>>

\* A resolve stage that names the request's op_id as it was sent.
ResolveFailure_rawop(f, err) ==
    OperatorResponse_error_with_diagnostics(
        IF err = "ProviderNotFound" THEN "PROVIDER_NOT_FOUND"
        ELSE "OP_NOT_FOUND",
        <<Diagnostic(
            IF err = "ProviderNotFound" THEN "provider_not_found"
            ELSE "op_not_found",
            <<"/", "op_id">>,
            IF err = "ProviderNotFound"
            THEN "runner.operator.provider_not_found"
            ELSE "runner.operator.op_not_found",
            Some(f.request.op_id),
            IF IsSome(f.request.provider_id) THEN f.request.provider_id
            ELSE f.request.provider_type)>>)

\* operator.rs:497-551: the response to a failed resolve
ResolveFailure(f, err) ==
    OperatorResponse_error_with_diagnostics(
        IF err = "ProviderNotFound" THEN "PROVIDER_NOT_FOUND"
        ELSE "OP_NOT_FOUND",
        <<Diagnostic(
            IF err = "ProviderNotFound" THEN "provider_not_found"
            ELSE "op_not_found",
            <<"/", "op_id">>,
            IF err = "ProviderNotFound"
            THEN "runner.operator.provider_not_found"
            ELSE "runner.operator.op_not_found",
            Some(f.op_id),
            IF IsSome(f.request.provider_id) THEN f.request.provider_id
            ELSE f.request.provider_type)>>)

\* operator.rs:484-553
Resolve(c) ==
    /\ inv[c].pc = "resolve"
    /\ LET f == Ran(inv[c], "resolve")
           resolved == OperatorRegistry_resolve(registry,
                            f.request.provider_id, f.request.provider_type,
                            f.op_id)
       IN IF resolved.ok
          THEN /\ inv' = [inv EXCEPT ![c] =
                    Goto([f EXCEPT !.binding = resolved.binding],
                         NextStage("resolve"))]
               /\ op_metrics' = [op_metrics EXCEPT !.resolve_attempts = @ + 1]
          ELSE /\ inv' = [inv EXCEPT ![c] =
                    Respond(f, ResolveFailure(f, resolved.err))]
               /\ op_metrics' = [op_metrics EXCEPT
                                    !.resolve_attempts = @ + 1,
                                    !.resolve_errors = @ + 1]
    /\ UNCHANGED <<cacheVars, runtime, registry, contract_cache>>

\* operator.rs:555-582
PolicyGate(c) ==
    /\ inv[c].pc = "policy_gate"
    /\ LET f == Ran(inv[c], "policy_gate")
           binding == Unwrap(f.binding)
       IN inv' = [inv EXCEPT ![c] =
            IF ~allows_provider(runtime.policy, f.request.provider_id,
                                binding.provider_type)
            THEN Respond(f, OperatorResponse_error("POLICY_DENIED"))
            ELSE IF ~allows_op(runtime.policy, f.request.provider_id,
                               binding.provider_type, binding.op_id)
            THEN Respond(f, OperatorResponse_error("POLICY_DENIED"))
            ELSE Goto(f, NextStage("policy_gate"))]
    /\ UNCHANGED <<cacheVars, opSide>>

\* A pipeline without pack pinning.
PackPinning_unpinned(c) ==
    /\ inv[c].pc = "pack_pinning"
    /\ inv' = [inv EXCEPT ![c] =
            Goto(Ran(inv[c], "pack_pinning"), NextStage("pack_pinning"))]
    /\ UNCHANGED <<cacheVars, opSide>>

\* operator.rs:584-599
PackPinning(c) ==
    /\ inv[c].pc = "pack_pinning"
    /\ LET f == Ran(inv[c], "pack_pinning")
           binding == Unwrap(f.binding)
       IN inv' = [inv EXCEPT ![c] =
            IF IsSome(f.request.pack_id)
                  /\ BeforeAt(binding.pack_ref) # Unwrap(f.request.pack_id)
            THEN Respond(f, OperatorResponse_error("POLICY_DENIED"))
            ELSE Goto(f, NextStage("pack_pinning"))]
    /\ UNCHANGED <<cacheVars, opSide>>

\* operator.rs:601-604
Attachments(c) ==
    /\ inv[c].pc = "attachments"
    /\ LET f == Ran(inv[c], "attachments")
           res == resolve_attachments(f.request.payload.attachments,
                                      runtime.secrets, 1, EmptyFn, << >>)
           g == [f EXCEPT !.asked = res.asked, !.attachments = res.map]
       IN inv' = [inv EXCEPT ![c] =
            IF ~res.ok
            THEN Respond(g, OperatorResponse_error("POLICY_DENIED"))
            ELSE Goto(g, NextStage("attachments"))]
    /\ UNCHANGED <<cacheVars, opSide>>

\* operator.rs:606-620: decode the payload and merge the attachments
Decode(c) ==
    /\ inv[c].pc = "decode"
    /\ LET f == Ran(inv[c], "decode")
           decoded == decode_request_payload(f.request.payload.cbor_input)
       IN IF ~decoded.ok
          THEN /\ inv' = [inv EXCEPT ![c] =
                    Respond(f, OperatorResponse_error("CBOR_DECODE"))]
               /\ op_metrics' = [op_metrics EXCEPT
                                    !.cbor_decode_errors = @ + 1]
          ELSE /\ inv' = [inv EXCEPT ![c] =
                    Goto([f EXCEPT !.input_value =
                            merge_input_with_attachments(decoded.value,
                                                         f.attachments)],
                         NextStage("decode"))]
               /\ UNCHANGED op_metrics
    /\ UNCHANGED <<cacheVars, runtime, registry, contract_cache>>

\* operator.rs:622-640
ComponentLookup(c) ==
    /\ inv[c].pc = "component_lookup"
    /\ LET f == Ran(inv[c], "component_lookup")
           binding == Unwrap(f.binding)
           resolved == resolve_component(runtime,
                                         binding.runtime.component_ref)
       IN inv' = [inv EXCEPT ![c] =
            IF resolved = Nothing
            THEN Respond(f, OperatorResponse_error("COMPONENT_LOAD"))
            ELSE Goto([f EXCEPT
                        !.component = resolved,
                        !.resolved_digest =
                            IF Unwrap(resolved).digest = <<"unknown">>
                            THEN IF IsSome(binding.pack_digest)
                                 THEN Unwrap(binding.pack_digest)
                                 ELSE Unwrap(resolved).digest
                            ELSE Unwrap(resolved).digest],
                      NextStage("component_lookup"))]
    /\ UNCHANGED <<cacheVars, opSide>>

\* format!("{}::{component_ref}::{op_id}::validate_output={}::strict={}")
ContractKey(resolved_digest, component_ref, op_id, validation_options) ==
    resolved_digest \o <<"::">> \o component_ref \o <<"::">> \o op_id
        \o <<"::validate_output=",
             ToString(validation_options.validate_output),
             "::strict=", ToString(validation_options.strict)>>

\* operator.rs:666-697: the schemas of the introspected contract where it
\* has them, else those the pack holds, and the references loaded on the
\* way.  config1 is loaded_config_schema before line 693.
SchemasWith(rt, has, contract, config_ref, output_ref, config1) ==
    [input |->
        IF has /\ ~is_null(contract.input_schema)
        THEN contract.input_schema
        ELSE config1,
     output |->
        IF has /\ ~is_null(contract.output_schema)
        THEN contract.output_schema
        ELSE IF IsSome(output_ref)
        THEN OrNull(load_schema_json(rt, Unwrap(output_ref)))
        ELSE JNull,
     config |->
        IF IsSome(config_ref)
              /\ IsSome(load_schema_json(rt, Unwrap(config_ref)))
        THEN Unwrap(load_schema_json(rt, Unwrap(config_ref)))
        ELSE config1,
     loads |->
        (IF ~(has /\ ~is_null(contract.config_schema)) /\ IsSome(config_ref)
         THEN config_ref ELSE << >>)
        \o (IF ~(has /\ ~is_null(contract.output_schema))
                  /\ IsSome(output_ref)
            THEN output_ref ELSE << >>)
        \o config_ref]

LoadedSchemas(rt, binding, has, contract) ==
    SchemasWith(rt, has, contract, binding.config_schema_ref,
        derive_output_schema_ref(binding.config_schema_ref),
        IF has /\ ~is_null(contract.config_schema)
        THEN contract.config_schema
        ELSE IF IsSome(binding.config_schema_ref)
        THEN OrNull(load_schema_json(rt, Unwrap(binding.config_schema_ref)))
        ELSE JNull)

\* operator.rs:705-731: the snapshot built on a miss
SnapshotWith(f, component_ref, invoke_op_id, hashes) ==
    [ContractSnapshot_new(f.resolved_digest, component_ref, invoke_op_id,
                          f.validation_options.validate_output,
                          f.validation_options.strict)
        EXCEPT !.describe_hash = Some(hashes.describe_hash),
               !.schema_hash = Some(hashes.schema_hash)]

BuildSnapshot(f, binding, has, contract, invoke_op_id, schemas) ==
    SnapshotWith(f, binding.runtime.component_ref, invoke_op_id,
        IF has
        THEN [describe_hash |-> contract.describe_hash,
              schema_hash |-> contract.schema_hash]
        ELSE compute_contract_hashes(f.resolved_digest,
                binding.runtime.component_ref, invoke_op_id,
                binding.runtime.world, binding.runtime.export,
                schemas.input, schemas.output, schemas.config,
                binding.state_schema_ref, binding.pack_ref))

\* operator.rs:702-704: the lookup; on a miss the snapshot is built here
\* and inserted by the next step.
LookupContract(c, g, got, snapshot) ==
    /\ contract_cache' = got.state
    /\ inv' = [inv EXCEPT ![c] =
            IF IsSome(got.snapshot)
            THEN Goto([g EXCEPT !.contract_snapshot = got.snapshot,
                                !.lookup = "hit"],
                      NextStage("contract_resolution"))
            ELSE Goto([g EXCEPT !.contract_snapshot = Some(snapshot),
                                !.lookup = "miss"],
                      "contract_insert")]

ResolveContract(c, f, binding, has, contract, invoke_op_id, schemas, contract_key) ==
    LookupContract(c,
        [f EXCEPT !.invoke_op_id = invoke_op_id,
                  !.loaded_input_schema = schemas.input,
                  !.contract_key = contract_key,
                  !.loads = @ \o schemas.loads],
        ContractCache_get(contract_cache, contract_key),
        BuildSnapshot(f, binding, has, contract, invoke_op_id, schemas))

Introspected(c, f, binding, contract) ==
    IF contract.k = "err"
    THEN /\ inv' = [inv EXCEPT ![c] =
              Respond(f, OperatorResponse_error_with_diagnostics(
                  "TYPE_MISMATCH",
                  <<Diagnostic("contract_introspection_failed",
                      <<"/", "operation">>,
                      "runner.operator.contract_introspection_failed",
                      Some(f.op_id),
                      Some(binding.runtime.component_ref))>>))]
         /\ UNCHANGED contract_cache
    ELSE ResolveContract(c, f, binding, contract.k = "some", contract,
            IF contract.k = "some" THEN contract.selected_operation
            ELSE f.op_id,
            LoadedSchemas(runtime, binding, contract.k = "some", contract),
            ContractKey(f.resolved_digest, binding.runtime.component_ref,
                        f.op_id, f.validation_options))

\* operator.rs:641-731: introspect, load the schemas, look the contract up
ContractResolution(c) ==
    /\ inv[c].pc = "contract_resolution"
    /\ Introspected(c, Ran(inv[c], "contract_resolution"),
            Unwrap(inv[c].binding),
            introspect_component_contract(Unwrap(inv[c].component),
                Unwrap(inv[c].binding).runtime.component_ref, inv[c].op_id))
    /\ UNCHANGED <<cacheVars, runtime, registry, op_metrics>>

\* operator.rs:732-734: runtime.contract_cache().insert(contract_key, ..)
ContractInsert(c) ==
    /\ inv[c].pc = "contract_insert"
    /\ contract_cache' =
          ContractCache_insert(contract_cache,
                               runtime.contract_cache_max_bytes,
                               inv[c].contract_key,
                               Unwrap(inv[c].contract_snapshot))
    /\ inv' = [inv EXCEPT ![c] =
                  Goto(inv[c], NextStage("contract_resolution"))]
    /\ UNCHANGED <<cacheVars, runtime, registry, op_metrics>>

\* operator.rs:737-778
InputValidation(c) ==
    /\ inv[c].pc = "input_validation"
    /\ LET f == Ran(inv[c], "input_validation")
           binding == Unwrap(f.binding)
           component_ref == binding.runtime.component_ref
           issues == validate_json_instance(f.loaded_input_schema,
                        f.input_value, f.validation_options.strict)
       IN inv' = [inv EXCEPT ![c] =
            IF ~is_null(f.loaded_input_schema)
            THEN IF issues # << >>
                 THEN Respond(f, OperatorResponse_error_with_diagnostics(
                        "TYPE_MISMATCH",
                        schema_issues_to_diagnostics(issues,
                            <<"/", "input">>, component_ref, f.op_id)))
                 ELSE Goto(f, NextStage("input_validation"))
            ELSE IF f.validation_options.strict
                       /\ IsSome(binding.config_schema_ref)
            THEN Respond(f, OperatorResponse_error_with_diagnostics(
                    "TYPE_MISMATCH",
                    <<Diagnostic("schema_ref_not_found",
                                 <<"/", "schema_hash">>,
                                 "runner.operator.schema_ref_not_found",
                                 Some(f.op_id), Some(component_ref))>>))
            ELSE Goto(f, NextStage("input_validation"))]
    /\ UNCHANGED <<cacheVars, opSide>>

\* A preflight that compares the hashes as they were given.
HashesDiffer_raw(expected_schema_hash, request_schema_hash) ==
    expected_schema_hash # request_schema_hash

\* operator.rs:783-785
HashesDiffer(expected_schema_hash, request_schema_hash) ==
    normalize_sha256_hash(expected_schema_hash)
        # normalize_sha256_hash(request_schema_hash)

\* operator.rs:780-805
SchemaHashPreflight(c) ==
    /\ inv[c].pc = "schema_hash_preflight"
    /\ LET f == Ran(inv[c], "schema_hash_preflight")
           snapshot == Unwrap(f.contract_snapshot)
       IN inv' = [inv EXCEPT ![c] =
            IF /\ IsSome(f.request.schema_hash)
               /\ IsSome(snapshot.schema_hash)
               /\ HashesDiffer(Unwrap(snapshot.schema_hash),
                               Unwrap(f.request.schema_hash))
            THEN Respond(f, OperatorResponse_error_with_diagnostics(
                    "TYPE_MISMATCH",
                    <<Diagnostic("schema_hash_mismatch",
                        <<"/", "schema_hash">>,
                        "runner.operator.schema_hash_mismatch",
                        Some(f.op_id),
                        Some(Unwrap(f.binding).runtime.component_ref))>>))
            ELSE Goto(f, NextStage("schema_hash_preflight"))]
    /\ UNCHANGED <<cacheVars, opSide>>

\* An invoke step that counts a failed invoke as an error only.
Invoke_errorsonly(c) ==
    /\ inv[c].pc = "invoke"
    /\ LET f == [Ran(inv[c], "invoke") EXCEPT !.invoked = TRUE]
           result == ComponentResult(
                        Unwrap(f.binding).runtime.component_ref,
                        f.input_value)
       IN IF result.ok
          THEN /\ inv' = [inv EXCEPT ![c] =
                    Goto([f EXCEPT !.result = result.value],
                         NextStage("invoke"))]
               /\ op_metrics' = [op_metrics EXCEPT !.invoke_attempts = @ + 1]
          ELSE /\ inv' = [inv EXCEPT ![c] =
                    Respond(f, OperatorResponse_error("HOST_FAILURE"))]
               /\ op_metrics' = [op_metrics EXCEPT !.invoke_errors = @ + 1]
    /\ UNCHANGED <<cacheVars, runtime, registry, contract_cache>>

\* operator.rs:807-875: serialise the input and run the component
Invoke(c) ==
    /\ inv[c].pc = "invoke"
    /\ LET f == [Ran(inv[c], "invoke") EXCEPT !.invoked = TRUE]
           result == ComponentResult(
                        Unwrap(f.binding).runtime.component_ref,
                        f.input_value)
       IN IF result.ok
          THEN /\ inv' = [inv EXCEPT ![c] =
                    Goto([f EXCEPT !.result = result.value],
                         NextStage("invoke"))]
               /\ op_metrics' = [op_metrics EXCEPT !.invoke_attempts = @ + 1]
          ELSE /\ inv' = [inv EXCEPT ![c] =
                    Respond(f, OperatorResponse_error("HOST_FAILURE"))]
               /\ op_metrics' = [op_metrics EXCEPT
                                    !.invoke_attempts = @ + 1,
                                    !.invoke_errors = @ + 1]
    /\ UNCHANGED <<cacheVars, runtime, registry, contract_cache>>

\* An output stage that validates whatever the flags say.
ShouldValidateOutput_always(validation_options) == TRUE

\* operator.rs:877: validation_options.validate_output
ShouldValidateOutput(validation_options) ==
    validation_options.validate_output

\* operator.rs:877-902
OutputValidation(c) ==
    /\ inv[c].pc = "output_validation"
    /\ LET f == Ran(inv[c], "output_validation")
           binding == Unwrap(f.binding)
           output_ref == derive_output_schema_ref(binding.config_schema_ref)
           consulted == ShouldValidateOutput(f.validation_options)
                            /\ IsSome(output_ref)
           output_schema ==
                IF consulted THEN load_schema_json(runtime, Unwrap(output_ref))
                ELSE Nothing
           output_value ==
                IF IsSome(JGet(f.result, "output"))
                THEN Unwrap(JGet(f.result, "output"))
                ELSE f.result
           issues ==
                IF IsSome(output_schema)
                THEN validate_json_instance(Unwrap(output_schema),
                        output_value, f.validation_options.strict)
                ELSE << >>
           g == [f EXCEPT !.loads =
                    IF consulted THEN @ \o output_ref ELSE @]
       IN inv' = [inv EXCEPT ![c] =
            IF issues # << >>
            THEN Respond(g, OperatorResponse_error_with_diagnostics(
                    "TYPE_MISMATCH",
                    schema_issues_to_diagnostics(issues, <<"/", "output">>,
                        binding.runtime.component_ref, f.op_id)))
            ELSE Goto(g, NextStage("output_validation"))]
    /\ UNCHANGED <<cacheVars, opSide>>

\* operator.rs:904-983
NewStateValidation(c) ==
    /\ inv[c].pc = "new_state_validation"
    /\ LET f == Ran(inv[c], "new_state_validation")
           binding == Unwrap(f.binding)
           component_ref == binding.runtime.component_ref
           new_state == JGet(f.result, "new_state")
           config_ref == binding.config_schema_ref
           config_schema ==
                IF IsSome(config_ref)
                THEN load_schema_json(runtime, Unwrap(config_ref))
                ELSE Nothing
           issues ==
                IF IsSome(new_state) /\ IsSome(config_schema)
                THEN validate_json_instance(Unwrap(config_schema),
                        Unwrap(new_state), f.validation_options.strict)
                ELSE << >>
           g == [f EXCEPT !.loads =
                    IF IsSome(new_state) THEN @ \o config_ref ELSE @]
           one(code, key) ==
                Respond(g, OperatorResponse_error_with_diagnostics(
                    "TYPE_MISMATCH",
                    <<Diagnostic(code, <<"/", "new_state">>, key,
                                 Some(f.op_id), Some(component_ref))>>))
       IN inv' = [inv EXCEPT ![c] =
            IF new_state = Nothing
            THEN Goto(g, NextStage("new_state_validation"))
            ELSE IF IsSome(config_ref)
            THEN IF config_schema = Nothing
                 THEN one("new_state_schema_missing",
                          "runner.operator.new_state_schema_missing")
                 ELSE IF issues # << >>
                 THEN Respond(g, OperatorResponse_error_with_diagnostics(
                        "TYPE_MISMATCH",
                        schema_issues_to_diagnostics(issues,
                            <<"/", "new_state">>, component_ref, f.op_id)))
                 ELSE Goto(g, NextStage("new_state_validation"))
            ELSE IF f.validation_options.strict
            THEN one("new_state_schema_unavailable",
                     "runner.operator.new_state_schema_unavailable")
            ELSE Goto(g, NextStage("new_state_validation"))]
    /\ UNCHANGED <<cacheVars, opSide>>

\* operator.rs:985-998: serialising a JSON value to CBOR does not fail
Encode(c) ==
    /\ inv[c].pc = "encode"
    /\ LET f == Ran(inv[c], "encode")
       IN inv' = [inv EXCEPT ![c] =
                    Respond(f, OperatorResponse_ok(cbor_to_vec(f.result)))]
    /\ UNCHANGED <<cacheVars, opSide>>

NextOp ==
    \E c \in Callers :
        \/ TenantGate(c)
        \/ SelectorGate(c)
        \/ Resolve(c)
        \/ PolicyGate(c)
        \/ PackPinning(c)
        \/ Attachments(c)
        \/ Decode(c)
        \/ ComponentLookup(c)
        \/ ContractResolution(c)
        \/ ContractInsert(c)
        \/ InputValidation(c)
        \/ SchemaHashPreflight(c)
        \/ Invoke(c)
        \/ OutputValidation(c)
        \/ NewStateValidation(c)
        \/ Encode(c)

SpecOp == InitOp /\ [][NextOp]_vars

(***************************************************************************)
(* Claims about the invocation pipeline.                                   *)
(***************************************************************************)
Done(c) == inv[c].pc = "done"
IsError(f) == Unwrap(f.response).status = "Error"
IsOk(f) == Unwrap(f.response).status = "Ok"
ErrorCode(f) == Unwrap(Unwrap(f.response).error).code
HasDetails(f) == IsSome(Unwrap(Unwrap(f.response).error).details_cbor)
\* The diagnostics decoded from details_cbor.
Details(f) == Unwrap(Unwrap(Unwrap(f.response).error).details_cbor).v
LastStage(f) == f.trace[Len(f.trace)]

ClaimedOrder ==
    <<"tenant_gate", "selector_gate", "resolve", "policy_gate",
      "pack_pinning", "attachments", "decode", "component_lookup",
      "contract_resolution", "input_validation", "schema_hash_preflight",
      "invoke", "output_validation", "new_state_validation", "encode">>

ClaimedCodes(stage) ==
    CASE stage = "tenant_gate" -> {"TENANT_NOT_ALLOWED"}
      [] stage = "selector_gate" -> {"INVALID_REQUEST"}
      [] stage = "resolve" -> {"PROVIDER_NOT_FOUND", "OP_NOT_FOUND"}
      [] stage \in {"policy_gate", "pack_pinning", "attachments"} ->
            {"POLICY_DENIED"}
      [] stage = "decode" -> {"CBOR_DECODE"}
      [] stage = "component_lookup" -> {"COMPONENT_LOAD"}
      [] stage \in {"invoke", "encode"} -> {"HOST_FAILURE"}
      [] OTHER -> {"TYPE_MISMATCH"}

\* What the request's selector and op resolve to in the registry.
BindingOf(request) ==
    OperatorRegistry_resolve(registry, request.provider_id,
        request.provider_type, normalize_operation_id(request.op_id))

\* The request does not pass the stage, judged from the request and the
\* runtime alone (for the stages up to the component lookup).
FailsAt(stage, request) ==
    CASE stage = "tenant_gate" ->
            IsSome(request.tenant_id)
                /\ Unwrap(request.tenant_id) # runtime.tenant
      [] stage = "selector_gate" ->
            request.provider_id = Nothing /\ request.provider_type = Nothing
      [] stage = "resolve" -> ~BindingOf(request).ok
      [] stage = "policy_gate" ->
            /\ BindingOf(request).ok
            /\ \/ Unwrap(BindingOf(request).binding).provider_type
                    \in runtime.policy.denied_providers
               \/ <<Unwrap(BindingOf(request).binding).provider_type,
                    Unwrap(BindingOf(request).binding).op_id>>
                    \in runtime.policy.denied_ops
      [] stage = "pack_pinning" ->
            IsSome(request.pack_id) /\ request.pack_id # Some(<<"a">>)
      [] stage = "attachments" ->
            \E i \in 1..Len(request.payload.attachments) :
                request.payload.attachments[i] = Secret("FORBIDDEN")
      [] stage = "decode" -> request.payload.cbor_input = BadBytes
      [] stage = "component_lookup" ->
            /\ BindingOf(request).ok
            /\ Unwrap(BindingOf(request).binding).runtime.component_ref
                    \notin DOMAIN runtime.components
      [] OTHER -> FALSE

RequestStages == 1..8

IsPrefix(s, t) == Len(s) <= Len(t) /\ s = SubSeq(t, 1, Len(s))

\* C11: invoke_operator runs its stages in the order tenant gate, selector
\* gate, resolve, policy gate, pack pinning, attachments, decode, component
\* lookup, contract resolution, input validation, schema-hash preflight,
\* invoke, output validation, new_state validation, encode; an error
\* response carries the code of the stage that ran last, that stage is the
\* earliest one the request fails, and nothing runs after it.
C11_StagesInOrder ==
    \A c \in Callers :
        /\ IsPrefix(inv[c].trace, ClaimedOrder)
        /\ Done(c) =>
            /\ IsError(inv[c])
                 => ErrorCode(inv[c]) \in ClaimedCodes(LastStage(inv[c]))
            /\ IsOk(inv[c]) => inv[c].trace = ClaimedOrder
            /\ \A i \in RequestStages :
                 (/\ FailsAt(ClaimedOrder[i], inv[c].request)
                  /\ \A j \in 1..(i - 1) :
                        ~FailsAt(ClaimedOrder[j], inv[c].request))
                 => /\ Len(inv[c].trace) = i
                    /\ IsError(inv[c])
            /\ (\A i \in RequestStages :
                    ~FailsAt(ClaimedOrder[i], inv[c].request))
                 => Len(inv[c].trace) > 8

\* A request with an invalid input and a wrong schema hash was answered by
\* the input validation, and the component did not run.
C11_Witness ==
    /\ Done(1)
    /\ inv[1].request.payload.cbor_input = cbor_to_vec(BadMessage)
    /\ inv[1].request.schema_hash = Some(<<"sha256:", "0000">>)
    /\ LastStage(inv[1]) = "input_validation"
    /\ ErrorCode(inv[1]) = "TYPE_MISMATCH"
    /\ Details(inv[1])[1].code = "schema_validation"
    /\ ~inv[1].invoked

\* The resolution of the caller's request failed: the request passed both
\* gates and the registry has no binding for it.
ResolveFailed(c) ==
    /\ Done(c)
    /\ ~FailsAt("tenant_gate", inv[c].request)
    /\ ~FailsAt("selector_gate", inv[c].request)
    /\ FailsAt("resolve", inv[c].request)

\* The provider the request selects is registered (under its id if the
\* request has one, else under its type).
ProviderRegistered(request) ==
    IF IsSome(request.provider_id)
    THEN Unwrap(request.provider_id) \in DOMAIN registry.per_provider_id
    ELSE Unwrap(request.provider_type) \in DOMAIN registry.per_provider_type

\* C15: a failed resolution answers Error without output, with code
\* PROVIDER_NOT_FOUND or OP_NOT_FOUND as the registry says, and exactly one
\* diagnostic: code provider_not_found / op_not_found, path "/op_id", the
\* matching runner.operator.* message key, operation_id the normalized
\* requested op id; resolve_errors counts each failed resolution once.
C15_ResolveFailureShape ==
    /\ \A c \in Callers :
        ResolveFailed(c) =>
            LET f == inv[c]
                known == ProviderRegistered(f.request)
            IN /\ IsError(f)
               /\ Unwrap(f.response).cbor_output = Nothing
               /\ ErrorCode(f) = IF known THEN "OP_NOT_FOUND"
                                 ELSE "PROVIDER_NOT_FOUND"
               /\ HasDetails(f)
               /\ Len(Details(f)) = 1
               /\ Details(f)[1].code = IF known THEN "op_not_found"
                                       ELSE "provider_not_found"
               /\ Details(f)[1].path = <<"/", "op_id">>
               /\ Details(f)[1].message_key =
                    IF known THEN "runner.operator.op_not_found"
                    ELSE "runner.operator.provider_not_found"
               /\ Details(f)[1].operation_id =
                    Some(IF trim(f.request.op_id) = << >> THEN <<"run">>
                         ELSE trim(f.request.op_id))
    /\ op_metrics.resolve_errors
         = Cardinality({c \in Callers : ResolveFailed(c)})

\* A blank op id sent to a provider that has no "run" was answered
\* OP_NOT_FOUND for "run", and resolve_errors is 1.
C15_Witness ==
    /\ ResolveFailed(1)
    /\ inv[1].request.op_id = << >>
    /\ ErrorCode(inv[1]) = "OP_NOT_FOUND"
    /\ Details(inv[1])[1].operation_id = Some(<<"run">>)
    /\ op_metrics.resolve_errors = 1

\* The callers that have looked a contract up, and the keys they used.
LookedUp == {c \in Callers : inv[c].lookup # "none"}
LookedUpKeys == {inv[c].contract_key : c \in LookedUp}

\* No caller is between its lookup and its insert.
NoInsertPending == \A c \in Callers : inv[c].pc # "contract_insert"

MemoizedOncePerKey ==
    /\ ContractCache_stats(contract_cache).misses = Cardinality(LookedUpKeys)
    /\ ContractCache_stats(contract_cache).entries = Cardinality(LookedUpKeys)
    /\ ContractCache_stats(contract_cache).hits
         = Cardinality(LookedUp) - Cardinality(LookedUpKeys)

\* C16 as stated: the first invocation that reaches contract resolution for
\* a key records exactly one miss and leaves exactly one entry, and every
\* later invocation with the same key records exactly one hit and neither a
\* miss nor an entry more.
C16_MemoizedAlways == NoInsertPending => MemoizedOncePerKey

\* Two callers missed on the same key: the second looked the key up before
\* the first had inserted it.
DoubleMiss ==
    \E c \in Callers, d \in Callers :
        /\ c # d
        /\ inv[c].lookup = "miss" /\ inv[d].lookup = "miss"
        /\ inv[c].contract_key = inv[d].contract_key

\* C16, amended: the counts are those of the claim as long as no snapshot
\* has been evicted and no invocation looked a key up while another
\* invocation was between its miss on that key and its insert.
C16_MemoizedWhileRetained ==
    (NoInsertPending /\ contract_cache.evictions = 0 /\ ~DoubleMiss)
        => MemoizedOncePerKey

\* Two invocations of the same request, one after the other: entries = 1,
\* misses = 1, hits = 1.
C16_Witness ==
    /\ Done(1) /\ Done(2)
    /\ inv[1].request = BaseRequest /\ inv[2].request = BaseRequest
    /\ inv[1].lookup = "miss" /\ inv[2].lookup = "hit"
    /\ contract_cache.evictions = 0
    /\ ContractCache_stats(contract_cache).entries = 1
    /\ ContractCache_stats(contract_cache).misses = 1
    /\ ContractCache_stats(contract_cache).hits = 1

\* The sha256:-prefixed form of a hash: surrounding whitespace removed and
\* the prefix put in front unless it is there.
Sha256Form(h) ==
    IF trim(h) # << >> /\ trim(h)[1] = "sha256:"
    THEN trim(h)
    ELSE <<"sha256:">> \o trim(h)

\* The caller's request carries a schema_hash and its invocation has run
\* the preflight.
Preflighted(c) ==
    /\ IsSome(inv[c].request.schema_hash)
    /\ \E i \in 1..Len(inv[c].trace) :
            inv[c].trace[i] = "schema_hash_preflight"

HashesAgree(f) ==
    Sha256Form(Unwrap(f.request.schema_hash))
        = Sha256Form(Unwrap(Unwrap(f.contract_snapshot).schema_hash))

\* C17: with a schema_hash in the request, the invocation goes on past the
\* preflight exactly if the request's hash and the snapshot's hash are equal
\* in their sha256:-prefixed forms; otherwise the response is Error
\* TYPE_MISMATCH with exactly one diagnostic, schema_hash_mismatch at
\* "/schema_hash", and the component is not invoked.
C17_SchemaHashPreflight ==
    \A c \in Callers :
        Preflighted(c) =>
            IF HashesAgree(inv[c])
            THEN ~(Done(c) /\ LastStage(inv[c]) = "schema_hash_preflight")
            ELSE /\ Done(c)
                 /\ LastStage(inv[c]) = "schema_hash_preflight"
                 /\ IsError(inv[c])
                 /\ ErrorCode(inv[c]) = "TYPE_MISMATCH"
                 /\ Len(Details(inv[c])) = 1
                 /\ Details(inv[c])[1].code = "schema_hash_mismatch"
                 /\ Details(inv[c])[1].path = <<"/", "schema_hash">>
                 /\ ~inv[c].invoked

\* A request whose hash is the right digest without prefix and with blanks
\* around it reached the component.
C17_Witness ==
    /\ Done(1)
    /\ inv[1].invoked
    /\ IsOk(inv[1])
    /\ inv[1].request.schema_hash
         = Some(<<" ">> \o Tail(BaseSchemaHash) \o <<" ">>)
    /\ Unwrap(inv[1].contract_snapshot).schema_hash = Some(BaseSchemaHash)

\* A request whose hash has the prefix in capitals was rejected.
C17_WitnessMismatch ==
    /\ Done(1)
    /\ inv[1].request.schema_hash
         = Some(<<"SHA256:">> \o Tail(BaseSchemaHash))
    /\ LastStage(inv[1]) = "schema_hash_preflight"
    /\ Details(inv[1])[1].code = "schema_hash_mismatch"
    /\ ~inv[1].invoked

\* The caller's invocation has run the named stage.
Passed(c, stage) ==
    \E i \in 1..Len(inv[c].trace) : inv[c].trace[i] = stage

\* The issues the validator finds in the caller's decoded input.
InputIssues(c) ==
    validate_json_instance(inv[c].loaded_input_schema, inv[c].input_value,
                           inv[c].validation_options.strict)

\* The path of an issue below a root: the root itself for "/", the root
\* followed by the issue's path otherwise.
RootedAt(root, path) == IF path = <<"/">> THEN root ELSE root \o path

\* C18: whenever the input schema is not null and the validator returns at
\* least one issue for the decoded input, the response is Error
\* TYPE_MISMATCH with one diagnostic per issue, in the issues' order and
\* with their codes, every path rooted at "/input" ("/" becomes "/input",
\* "/message" becomes "/input/message"), and the component is not invoked.
C18_InputIssuesSurface ==
    \A c \in Callers :
        (/\ Passed(c, "input_validation")
         /\ ~is_null(inv[c].loaded_input_schema)
         /\ InputIssues(c) # << >>)
        => /\ Done(c)
           /\ LastStage(inv[c]) = "input_validation"
           /\ IsError(inv[c])
           /\ ErrorCode(inv[c]) = "TYPE_MISMATCH"
           /\ Len(Details(inv[c])) = Len(InputIssues(c))
           /\ \A i \in 1..Len(InputIssues(c)) :
                /\ Details(inv[c])[i].code = InputIssues(c)[i].code
                /\ Details(inv[c])[i].path
                     = RootedAt(<<"/", "input">>, InputIssues(c)[i].path)
           /\ ~inv[c].invoked

\* The input {"message": 42} was rejected with one diagnostic at
\* "/input/message".
C18_Witness ==
    /\ Done(1)
    /\ LastStage(inv[1]) = "input_validation"
    /\ inv[1].input_value = BadMessage
    /\ Len(Details(inv[1])) = 1
    /\ Details(inv[1])[1].code = "schema_validation"
    /\ Details(inv[1])[1].path = <<"/", "input", "/", "message">>
    /\ ~inv[1].invoked

\* The input "ping", not an object, was rejected with a diagnostic at
\* "/input".
C18_WitnessRoot ==
    /\ Done(1)
    /\ LastStage(inv[1]) = "input_validation"
    /\ inv[1].input_value = JStr("ping")
    /\ Details(inv[1])[1].path = <<"/", "input">>
    /\ ~inv[1].invoked

\* Schemas with pattern, format or patternProperties at several depths,
\* each with the places where they occur, in the validator's order.
ConstrainedSchemas ==
    <<[schema |-> PatternSchema,
       places |-> <<<<"/", "properties", "/", "message", "/", "pattern">>>>],
      [schema |-> JObj([type |-> JStr("string"), format |-> JStr("email")]),
       places |-> <<<<"/", "format">>>>],
      [schema |->
          JObj([pattern |-> JStr("^[a-z]+$"),
                allOf |-> JArr(<<MessageSchema,
                                 JObj([patternProperties |->
                                         JObj([message |-> MessageSchema])])
                               >>)]),
       places |-> <<<<"/", "pattern">>,
                    <<"/", "allOf", "/", "1", "/", "patternProperties">>>>]>>

\* Instances, valid and invalid.
Instances ==
    {PingInput, BadMessage, JStr("ping"), JStr("PING"), JNull,
     JObj([message |-> JStr("PING")])}

\* In strict mode every constrained schema yields exactly its places as
\* unsupported_schema_constraint issues, whatever the instance; in
\* permissive mode no such issue is returned.
ValidatorStrictVersusPermissive ==
    \A k \in 1..Len(ConstrainedSchemas), instance \in Instances :
        LET schema == ConstrainedSchemas[k].schema
            places == ConstrainedSchemas[k].places
            strict == validate_json_instance(schema, instance, TRUE)
            permissive == validate_json_instance(schema, instance, FALSE)
        IN /\ strict = [i \in 1..Len(places) |->
                          SchemaValidationIssue(
                              "unsupported_schema_constraint", places[i],
                              "runner.schema.unsupported_constraint")]
           /\ \A i \in 1..Len(permissive) :
                permissive[i].code # "unsupported_schema_constraint"

\* The request of the strict-mode test and its permissive twin.
PatternRequest ==
    [BaseRequest EXCEPT !.provider_type = Some("example.pattern")]
PermissiveRequest ==
    [PatternRequest EXCEPT !.flags = <<FLAG_PERMISSIVE_SCHEMA>>]

\* C19: with strict = true a schema containing pattern, format or
\* patternProperties at any depth makes the validator return only
\* unsupported_schema_constraint issues, one per offending place, without
\* validating the instance, and the invocation fails with TYPE_MISMATCH
\* before the component is invoked; with the permissive-schema flag no
\* unsupported_schema_constraint issue is produced, an otherwise valid
\* input passes input validation, and the request of the strict-mode test
\* with the flag added returns Ok.
C19_StrictVersusPermissive ==
    /\ ValidatorStrictVersusPermissive
    /\ \A c \in Callers :
        (/\ Passed(c, "input_validation")
         /\ collect_unsupported_constraints(inv[c].loaded_input_schema,
                                            << >>) # << >>)
        => IF inv[c].validation_options.strict
           THEN /\ Done(c)
                /\ LastStage(inv[c]) = "input_validation"
                /\ IsError(inv[c])
                /\ ErrorCode(inv[c]) = "TYPE_MISMATCH"
                /\ \A i \in 1..Len(Details(inv[c])) :
                     Details(inv[c])[i].code
                        = "unsupported_schema_constraint"
                /\ ~inv[c].invoked
           ELSE /\ (Done(c) /\ LastStage(inv[c]) = "input_validation")
                    => /\ iter_errors(inv[c].loaded_input_schema,
                                      inv[c].input_value, << >>) # << >>
                       /\ \A i \in 1..Len(Details(inv[c])) :
                            Details(inv[c])[i].code = "schema_validation"
                /\ (Done(c) /\ inv[c].request = PermissiveRequest)
                    => IsOk(inv[c])

\* The strict request was rejected for the pattern in its schema.
C19_Witness ==
    /\ Done(1)
    /\ inv[1].request = PatternRequest
    /\ ErrorCode(inv[1]) = "TYPE_MISMATCH"
    /\ Len(Details(inv[1])) = 1
    /\ Details(inv[1])[1].code = "unsupported_schema_constraint"
    /\ Details(inv[1])[1].path
         = <<"/", "input", "/", "properties", "/", "message", "/", "pattern">>
    /\ ~inv[1].invoked

\* The same request with the permissive-schema flag succeeded.
C19_WitnessPermissive ==
    /\ Done(1)
    /\ inv[1].request = PermissiveRequest
    /\ inv[1].invoked
    /\ IsOk(inv[1])

\* The request asks to skip output validation.
SkipsOutput(f) ==
    \E i \in 1..Len(f.request.flags) :
        to_ascii_lowercase(trim(f.request.flags[i])) = FLAG_SKIP_OUTPUT_VALIDATE

\* The output schema of the invocation's binding, if the pack has one.
OutputSchema(f) ==
    IF IsSome(derive_output_schema_ref(Unwrap(f.binding).config_schema_ref))
    THEN load_schema_json(runtime,
            Unwrap(derive_output_schema_ref(
                      Unwrap(f.binding).config_schema_ref)))
    ELSE Nothing

\* What is validated: the result's "output" field if present, else the
\* whole result.
OutputOf(result) ==
    IF is_object(result) /\ "output" \in DOMAIN result.m
    THEN result.m["output"]
    ELSE result

OutputIssues(f) ==
    validate_json_instance(Unwrap(OutputSchema(f)), OutputOf(f.result),
                           ~\E i \in 1..Len(f.request.flags) :
                               to_ascii_lowercase(trim(f.request.flags[i]))
                                   = FLAG_PERMISSIVE_SCHEMA)

\* The invocation has run output validation on a result that violates the
\* output schema of its binding.
BadOutput(c) ==
    /\ Passed(c, "output_validation")
    /\ IsSome(OutputSchema(inv[c]))
    /\ OutputIssues(inv[c]) # << >>

\* Without the flag: Error TYPE_MISMATCH, one diagnostic per issue, rooted
\* at "/output".
RejectedAtOutput(c) ==
    /\ Done(c)
    /\ LastStage(inv[c]) = "output_validation"
    /\ IsError(inv[c])
    /\ ErrorCode(inv[c]) = "TYPE_MISMATCH"
    /\ Len(Details(inv[c])) = Len(OutputIssues(inv[c]))
    /\ \A i \in 1..Len(OutputIssues(inv[c])) :
         Details(inv[c])[i].path
            = RootedAt(<<"/", "output">>, OutputIssues(inv[c])[i].path)

\* C20 as stated: without the skip-output-validate flag a result that
\* violates the loaded output schema yields Error TYPE_MISMATCH with
\* diagnostics rooted at "/output"; with the flag the same invocation
\* returns Ok.
C20_SkipFlagReturnsOk ==
    \A c \in Callers :
        BadOutput(c) =>
            IF SkipsOutput(inv[c])
            THEN Done(c) => IsOk(inv[c])
            ELSE RejectedAtOutput(c)

\* C20, amended: without the flag as stated; with the flag the result is
\* not validated against the output schema, so the invocation does not end
\* at output validation: it goes on to the validation of new_state, which
\* can still reject it, and returns Ok otherwise.
C20_SkipFlagSkipsOutputValidation ==
    \A c \in Callers :
        BadOutput(c) =>
            IF SkipsOutput(inv[c])
            THEN /\ ~(Done(c) /\ LastStage(inv[c]) = "output_validation")
                 /\ Done(c) =>
                        \/ IsOk(inv[c])
                        \/ /\ LastStage(inv[c]) = "new_state_validation"
                           /\ ErrorCode(inv[c]) = "TYPE_MISMATCH"
                           /\ \A i \in 1..Len(Details(inv[c])) :
                                IsPrefix(<<"/", "new_state">>,
                                         Details(inv[c])[i].path)
            ELSE RejectedAtOutput(c)

\* A result {"output": {"message": 42}} was rejected at "/output/message"
\* without the flag.
C20_Witness ==
    /\ Done(1)
    /\ BadOutput(1)
    /\ ~SkipsOutput(inv[1])
    /\ OutputOf(inv[1].result) = BadMessage
    /\ Details(inv[1])[1].path = <<"/", "output", "/", "message">>

\* The same result was returned Ok with the flag.
C20_WitnessSkipped ==
    /\ Done(1)
    /\ BadOutput(1)
    /\ SkipsOutput(inv[1])
    /\ OutputOf(inv[1].result) = BadMessage
    /\ IsOk(inv[1])

\* With the flag, a result whose new_state is invalid too was rejected at
\* "/new_state".
C20_WitnessNewState ==
    /\ Done(1)
    /\ BadOutput(1)
    /\ SkipsOutput(inv[1])
    /\ IsError(inv[1])
    /\ LastStage(inv[1]) = "new_state_validation"

\* The object m with the field "_attachments" set to the attachment map and
\* every other field as it was.
WithAttachments(m, map) ==
    [k \in DOMAIN m \cup {"_attachments"} |->
        IF k = "_attachments" THEN JObj(map) ELSE m[k]]

\* The merged input as the claim describes it.
MergedAsStated(input, map) ==
    IF is_object(input)
    THEN JObj(WithAttachments(input.m, map))
    ELSE JObj([k \in {"input", "_attachments"} |->
                 IF k = "input" THEN input ELSE JObj(map)])

\* Decoded inputs and attachment maps, among them an object that has an
\* "_attachments" field already and the empty map.
MergeInputs ==
    {PingInput, BadMessage, JStr("ping"), JNull, JNum(7),
     JArr(<<JStr("ping")>>), JObj(EmptyFn),
     JObj([message |-> JStr("ping"), _attachments |-> JStr("old")])}

MergeMaps ==
    {EmptyFn, [token |-> JStr("s3cret")],
     [token |-> JStr("s3cret"), key |-> JStr("other")]}

\* The caller's payload was decoded and merged with its attachments.
Merged(c) ==
    /\ Passed(c, "decode")
    /\ decode_request_payload(inv[c].request.payload.cbor_input).ok

DecodedInput(c) ==
    decode_request_payload(inv[c].request.payload.cbor_input).value

\* C21 as stated: for every decoded input and every attachment map the
\* merged input is the object with its fields preserved plus "_attachments"
\* set to the map, or {"input": original, "_attachments": map} when the
\* input is not an object.
C21_MergeAlwaysAttaches ==
    /\ \A input \in MergeInputs, map \in MergeMaps :
            merge_input_with_attachments(input, map)
                = MergedAsStated(input, map)
    /\ \A c \in Callers :
            Merged(c) => inv[c].input_value
                            = MergedAsStated(DecodedInput(c),
                                             inv[c].attachments)

\* What the merge yields: the claim's object for a map that is not empty,
\* the input itself for the empty map.
MergedAmended(input, map) ==
    IF DOMAIN map = {} THEN input ELSE MergedAsStated(input, map)

\* C21, amended: for every decoded input and every attachment map that is
\* not empty the merged input is as stated; with an empty attachment map
\* the merged input is the decoded input unchanged, without an
\* "_attachments" field.
C21_MergeAttachesUnlessEmpty ==
    /\ \A input \in MergeInputs, map \in MergeMaps :
            merge_input_with_attachments(input, map)
                = MergedAmended(input, map)
    /\ \A c \in Callers :
            Merged(c) => inv[c].input_value
                            = MergedAmended(DecodedInput(c),
                                            inv[c].attachments)

\* A scalar input was wrapped together with a resolved secret.
C21_Witness ==
    /\ Merged(1)
    /\ DecodedInput(1) = JStr("ping")
    /\ DOMAIN inv[1].attachments = {"token"}
    /\ inv[1].input_value
         = JObj([input |-> JStr("ping"),
                 _attachments |-> JObj(inv[1].attachments)])

\* An object input kept its field and received the resolved secret.
C21_WitnessObject ==
    /\ Merged(1)
    /\ DecodedInput(1) = PingInput
    /\ DOMAIN inv[1].attachments = {"token"}
    /\ DOMAIN inv[1].input_value.m = {"message", "_attachments"}

(***************************************************************************)
(* Claims on the eviction passes of MemoryCache::insert.  The passes are   *)
(* told apart by running the first one alone on the state insert has       *)
(* built before it calls evict_if_needed.                                  *)
(***************************************************************************)
\* memory.rs:89-102: the state of insert just before evict_if_needed.
BeforeEviction(state, key, value, bytes_estimate, pinned) ==
    LET removed ==
            IF key \in DOMAIN state.entries
            THEN [state EXCEPT
                    !.entries = RemoveKey(state.entries, key),
                    !.total_bytes = @ - state.entries[key].bytes_estimate,
                    !.lru = remove_lru(state.lru, key)]
            ELSE state
    IN  [removed EXCEPT
            !.entries = (key :> CacheEntry(value, bytes_estimate, pinned))
                            @@ removed.entries,
            !.total_bytes = @ + bytes_estimate,
            !.lru = <<key>> \o removed.lru]

\* memory.rs:124-139: the protected pass alone.
ProtectedPass(state) ==
    IF max_bytes = 0
    THEN [state |-> state, evicted_any |-> FALSE]
    ELSE EvictPass(state, max_bytes, lfu_protect_hits, TRUE, Len(state.lru),
                   FALSE)

\* The sizes the insert just made can have had.
InsertSizes ==
    {size \in 1..MaxEntrySize :
        memory' = MemoryCache_insert(memory, max_bytes, lfu_protect_hits,
                    lastMem'.key, Wasm(lastMem'.key.wasm_digest), size,
                    lastMem'.pinned)}

\* The state before eviction of the insert just made.
Added(size) ==
    BeforeEviction(memory, lastMem'.key, Wasm(lastMem'.key.wasm_digest),
                   size, lastMem'.pinned)

EvictedByProtectedPass(size) ==
    DOMAIN Added(size).entries
        \ DOMAIN ProtectedPass(Added(size)).state.entries

EvictedByPressurePass(size) ==
    DOMAIN ProtectedPass(Added(size)).state.entries \ DOMAIN memory'.entries

\* The entry has reached the threshold.
Hot(state, k) == state.entries[k].hit_count >= lfu_protect_hits

\* An insert step of the direct calls.
InsertStep == lastMem'.op = "insert" /\ memOps' = memOps + 1

LfuProtected(size) ==
    \A k \in DOMAIN Added(size).entries :
        Hot(Added(size), k) =>
            /\ k \notin EvictedByProtectedPass(size)
            /\ k \in EvictedByPressurePass(size) =>
                  \E j \in EvictedByProtectedPass(size) :
                        ~Hot(Added(size), j) /\ ~Added(size).entries[j].pinned

\* C22 as stated: an entry whose hit_count >= lfu_protect_hits is never
\* evicted by the protected pass; only the pressure pass can evict it, and
\* only in an insert whose protected pass evicted an unprotected entry.
C22_HotNeverEvictedFirst ==
    [][InsertStep => \A size \in InsertSizes : LfuProtected(size)]_vars

\* C22, amended: the same for a cache constructed with lfu_protect_hits > 0;
\* with lfu_protect_hits = 0 the protection is off and every unpinned entry
\* can be evicted by the first pass.
C22_HotNeverEvictedFirstWhenOn ==
    [][(InsertStep /\ lfu_protect_hits > 0)
          => \A size \in InsertSizes : LfuProtected(size)]_vars

\* Three inserts of three keys and one hit, with threshold 1: the entry
\* that was hit is gone and so is the entry inserted last, so the protected
\* pass evicted the new entry and the pressure pass the hot one; the pinned
\* entry is left.
C22_Witness ==
    /\ lfu_protect_hits = 1
    /\ max_bytes = 3
    /\ memOps = 4
    /\ lastMem.op = "insert"
    /\ lastMem.key \notin DOMAIN memory.entries
    /\ memory.evictions = 2
    /\ memory.hits = 1 /\ memory.misses = 0
    /\ Cardinality(DOMAIN memory.entries) = 1
    /\ \A k \in DOMAIN memory.entries :
            memory.entries[k].hit_count = 0 /\ memory.entries[k].pinned

\* The sum of bytes_estimate over the entries held under the keys.
RECURSIVE SumBytes(_, _)
SumBytes(entries, keys) ==
    IF keys = {} THEN 0
    ELSE LET k == CHOOSE x \in keys : TRUE
         IN  entries[k].bytes_estimate + SumBytes(entries, keys \ {k})

\* C23: in every reachable MemoryCache state total_bytes equals the sum of
\* bytes_estimate over the entries in the cache, and stats().entries equals
\* the number of those entries.
C23_TotalBytesIsSum ==
    /\ memory.total_bytes = SumBytes(memory.entries, DOMAIN memory.entries)
    /\ MemoryCache_stats(memory).total_bytes
         = SumBytes(memory.entries, DOMAIN memory.entries)
    /\ MemoryCache_stats(memory).entries
         = Cardinality({k \in AllKeys : k \in DOMAIN memory.entries})

\* After the calls of a behaviour, an eviction and a hit among them, the
\* cache holds two entries of three bytes together.
C23_Witness ==
    /\ lastMem.op = "insert"
    /\ memory.evictions >= 1
    /\ memory.hits >= 1
    /\ memOps = MaxMemOps
    /\ Cardinality(DOMAIN memory.entries) = 2
    /\ memory.total_bytes = 3
    /\ max_bytes = 3

\* A get step of the direct calls.
GetStep == lastMem'.op = "get" /\ memOps' = memOps + 1

\* The order with the key moved to the front.
MovedToFront(lru, key) ==
    <<key>> \o SelectSeq(lru, LAMBDA item : item # key)

\* Everything of the state but what a hit may change.
FrameOfHit(state, key) ==
    [misses |-> state.misses, evictions |-> state.evictions,
     total_bytes |-> state.total_bytes, keys |-> DOMAIN state.entries,
     others |-> [k \in DOMAIN state.entries \ {key} |-> state.entries[k]],
     component |-> state.entries[key].component,
     bytes_estimate |-> state.entries[key].bytes_estimate,
     pinned |-> state.entries[key].pinned]

\* C24: a get that hits increments hits and the entry's hit_count by one,
\* moves the key to the LRU front and changes nothing else; a get that
\* misses increments misses by one and changes nothing else, the LRU order
\* included.
C24_GetFrame ==
    [][GetStep =>
        IF lastMem'.key \in DOMAIN memory.entries
        THEN /\ lastMem'.result
                  = Some(memory.entries[lastMem'.key].component)
             /\ memory'.hits = memory.hits + 1
             /\ memory'.entries[lastMem'.key].hit_count
                  = memory.entries[lastMem'.key].hit_count + 1
             /\ memory'.lru = MovedToFront(memory.lru, lastMem'.key)
             /\ FrameOfHit(memory', lastMem'.key)
                  = FrameOfHit(memory, lastMem'.key)
             /\ MemoryCache_stats(memory').entries
                  = MemoryCache_stats(memory).entries
        ELSE /\ lastMem'.result = Nothing
             /\ memory'.misses = memory.misses + 1
             /\ memory' = [memory EXCEPT !.misses = memory'.misses]]_vars

\* A hit with two entries in the cache left its key at the LRU front.
C24_Witness ==
    /\ lastMem.op = "get"
    /\ IsSome(lastMem.result)
    /\ Len(memory.lru) = 2
    /\ memory.lru[1] = lastMem.key
    /\ memory.hits = 1
    /\ memory.entries[lastMem.key].hit_count = 1
    /\ memOps = 3

\* A miss counted and nothing else.
C24_WitnessMiss ==
    /\ lastMem.op = "get"
    /\ lastMem.result = Nothing
    /\ memory.misses = 1
    /\ Len(memory.lru) = 2

\* No entry is pinned and none is protected by its hit count.
NothingProtected(state) ==
    \A k \in DOMAIN state.entries :
        /\ ~state.entries[k].pinned
        /\ ~(lfu_protect_hits > 0
                /\ state.entries[k].hit_count >= lfu_protect_hits)

\* The entries the insert just made evicted.
EvictedByInsert(size) ==
    DOMAIN Added(size).entries \ DOMAIN memory'.entries

\* k was used more recently than j: every insert and every hit moves its
\* key to the front of the order, so k is nearer to the front.
UsedAfter(lru, k, j) == Position(lru, k) < Position(lru, j)

LruOrderKept(size) ==
    /\ \A k \in DOMAIN memory'.entries, j \in EvictedByInsert(size) :
            UsedAfter(Added(size).lru, k, j)
    /\ Added(size).total_bytes <= max_bytes => EvictedByInsert(size) = {}
    /\ memory'.total_bytes <= max_bytes

\* C25: when no entry is pinned and no entry is protected by its hit count,
\* an insert that exceeds max_bytes evicts in least-recently-used order:
\* every entry that survives was used more recently than every entry the
\* insert evicted, and the insert ends within max_bytes.
C25_LruEvictionOrder ==
    [][(InsertStep /\ max_bytes > 0)
          => \A size \in InsertSizes :
                NothingProtected(Added(size)) => LruOrderKept(size)]_vars

\* After three inserts and a hit into a cache of three bytes, two entries
\* were evicted and the entry inserted last is the one left.
C25_Witness ==
    /\ max_bytes = 3
    /\ memOps = 4
    /\ lastMem.op = "insert"
    /\ NothingProtected(memory)
    /\ memory.evictions = 2
    /\ memory.hits = 1
    /\ DOMAIN memory.entries = {lastMem.key}
    /\ memory.total_bytes = 2

(***************************************************************************)
(* DiskCache::approx_size_bytes and DiskCache::prune_to_limit (disk.rs).   *)
(* The clock counts ticks; a timestamp string is the tick it was taken at, *)
(* or Unparseable for a string that is not RFC 3339.  prune_to_limit sorts *)
(* by DateTime::timestamp(), which is whole seconds.                       *)
(***************************************************************************)
MaxNow == 3             \* the clock stops here
TicksPerSecond == 2     \* ticks of the clock in one second

\* A last_access_at or created_at that parse_from_rfc3339 rejects.
Unparseable == -1

\* i64::MIN, the sort key of an entry without a timestamp: below every
\* second the clock shows.
I64Min == -1

\* DateTime::parse_from_rfc3339(s).ok()
parse_from_rfc3339(s) == IF s = Unparseable THEN Nothing ELSE Some(s)

\* metadata.rs:62-71
last_access_time(meta) ==
    IF IsSome(parse_from_rfc3339(meta.last_access_at))
    THEN parse_from_rfc3339(meta.last_access_at)
    ELSE parse_from_rfc3339(meta.created_at)

\* DateTime::timestamp(): the seconds since the epoch
timestamp(ts) == ts \div TicksPerSecond

\* disk.rs:173
SortKey(access) ==
    IF IsSome(access) THEN timestamp(Unwrap(access)) ELSE I64Min

\* fs::metadata(path).map(|m| m.len()).unwrap_or(0)
FileLen(file) == IF file = Nothing THEN 0 ELSE Len(Unwrap(file))

\* The orders in which read_dir can list the directory.
DirOrders ==
    {order \in [1..Cardinality(FileNames) -> FileNames] :
        \A i, j \in DOMAIN order : order[i] = order[j] => i = j}

RECURSIVE SumLen(_, _)
SumLen(d, names) ==
    IF names = {} THEN 0
    ELSE LET f == CHOOSE x \in names : TRUE
         IN  FileLen(d.artifact[f]) + SumLen(d, names \ {f})

\* disk.rs:114-132: the total size of the *.cwasm files of artifacts/
approx_size_bytes(d) ==
    IF ~d.artifacts_dir THEN 0 ELSE SumLen(d, FileNames)

\* disk.rs:150-171: the entries collected from the *.json files that parse,
\* in the order read_dir lists them.
RECURSIVE ScanEntries(_, _, _)
ScanEntries(d, order, i) ==
    IF i > Len(order) THEN << >>
    ELSE IF d.meta[order[i]] = Nothing \/ ~Unwrap(d.meta[order[i]]).parses
    THEN ScanEntries(d, order, i + 1)
    ELSE <<[name   |-> order[i],
            access |-> last_access_time(Unwrap(d.meta[order[i]]).meta),
            size   |-> FileLen(d.artifact[order[i]])]>>
            \o ScanEntries(d, order, i + 1)

\* disk.rs:172-174: entries.sort_by_key(..), a stable sort: entries of equal
\* key keep the order of the scan.
RECURSIVE sort_by_key(_)
sort_by_key(entries) ==
    IF entries = << >> THEN << >>
    ELSE LET rest == sort_by_key(Tail(entries))
             key == SortKey(Head(entries).access)
             before == SelectSeq(rest, LAMBDA e : SortKey(e.access) < key)
             after == SelectSeq(rest, LAMBDA e : SortKey(e.access) >= key)
         IN  before \o <<Head(entries)>> \o after

RECURSIVE TotalSize(_)
TotalSize(entries) ==
    IF entries = << >> THEN 0
    ELSE Head(entries).size + TotalSize(Tail(entries))

\* disk.rs:178-189: how many entries of the sorted list the loop removes
RECURSIVE RemovedCount(_, _, _, _)
RemovedCount(entries, i, remaining, limit) ==
    IF i > Len(entries) \/ remaining <= limit THEN i - 1
    ELSE RemovedCount(entries, i + 1, remaining - entries[i].size, limit)

\* A prune that removes files in a dry run as well.
RemoveFiles_always(d, names, dry_run) ==
    [d EXCEPT !.artifact = [f \in FileNames |->
                              IF f \in names THEN Nothing ELSE @[f]],
              !.meta = [f \in FileNames |->
                          IF f \in names THEN Nothing ELSE @[f]]]

\* disk.rs:182-185: remove_file of the artifact and of the sidecar
RemoveFiles(d, names, dry_run) ==
    IF dry_run THEN d
    ELSE [d EXCEPT !.artifact = [f \in FileNames |->
                                   IF f \in names THEN Nothing ELSE @[f]],
                   !.meta = [f \in FileNames |->
                               IF f \in names THEN Nothing ELSE @[f]]]

PruneReport(removed_entries, removed_bytes) ==
    [removed_entries |-> removed_entries, removed_bytes |-> removed_bytes]

\* The outcome of the loop over the sorted entries.
PruneSorted(d, sorted, limit, dry_run) ==
    [disk |-> RemoveFiles(d,
                {sorted[i].name :
                    i \in 1..RemovedCount(sorted, 1, TotalSize(sorted), limit)},
                dry_run),
     removed |-> SubSeq(sorted, 1,
                    RemovedCount(sorted, 1, TotalSize(sorted), limit)),
     report |-> PruneReport(
                    RemovedCount(sorted, 1, TotalSize(sorted), limit),
                    TotalSize(SubSeq(sorted, 1,
                        RemovedCount(sorted, 1, TotalSize(sorted), limit))))]

\* disk.rs:134-194: the directory afterwards, the entries removed and the
\* report, for a directory read_dir lists in the given order.
prune_to_limit(d, limit, order, dry_run) ==
    IF limit = Nothing \/ ~d.artifacts_dir
    THEN [disk |-> d, removed |-> << >>, report |-> PruneReport(0, 0)]
    ELSE PruneSorted(d, sort_by_key(ScanEntries(d, order, 1)),
                     Unwrap(limit), dry_run)

(***************************************************************************)
(* Direct DiskCache calls with pruning (SpecPrune): two callers on an      *)
(* empty directory that write, delete and prune.  write_atomic and delete  *)
(* run step by step as above; a prune_to_limit call is taken as one step,  *)
(* so that what it does to the directory it found can be read off the      *)
(* step.                                                                   *)
(***************************************************************************)
DiskLimits == {Nothing, Some(0), Some(4)}

\* The metadata callers pass to write_atomic: a fresh one, and fresh ones
\* whose timestamps are not RFC 3339.
PruneMetas(key, bytes) ==
    {ArtifactMetadata_new(Profile, key.wasm_digest, Len(bytes), now),
     [ArtifactMetadata_new(Profile, key.wasm_digest, Len(bytes), now)
        EXCEPT !.last_access_at = Unparseable],
     [ArtifactMetadata_new(Profile, key.wasm_digest, Len(bytes), now)
        EXCEPT !.last_access_at = Unparseable, !.created_at = Unparseable]}

InitPrune ==
    /\ QuietOperator
    /\ QuietMemory
    /\ QuietManager
    /\ memory_enabled = FALSE
    /\ disk_enabled = TRUE
    /\ disk_max_bytes \in DiskLimits
    /\ hashing = NotHashing
    /\ disk = EmptyDisk
    /\ task = [t \in Tasks |-> IF t = LastTask THEN OffTask ELSE IdleTask]

\* Utc::now() moves on.
Tick ==
    /\ now < MaxNow
    /\ now' = now + 1
    /\ UNCHANGED <<memVars, cfgVars, opVars, disk, metrics, sfVars, task,
                   diskOps, ghostVars>>

\* DiskCache::write_atomic(key, bytes, meta) is called.
PruneStartWrite(t) ==
    /\ task[t].pc = "idle"
    /\ diskOps < MaxDiskOps
    /\ \E key \in DiskKeys :
       \E meta \in PruneMetas(key, SerializedOf(key.wasm_digest)) :
          SetTask(t, [IdleTask EXCEPT !.pc = "wa_validate",
                                      !.op = "write_atomic", !.key = key,
                                      !.bytes =
                                        Some(SerializedOf(key.wasm_digest)),
                                      !.meta = Some(meta)])
    /\ diskOps' = diskOps + 1
    /\ UNCHANGED <<memVars, cfgVars, opVars, disk, now, metrics, sfVars,
                   ghostVars>>

\* DiskCache::prune_to_limit(dry_run) is called and returns.
PruneCall(t) ==
    /\ task[t].pc = "idle"
    /\ diskOps < MaxDiskOps
    /\ \E dry_run \in BOOLEAN, order \in DirOrders :
        /\ disk' = prune_to_limit(disk, disk_max_bytes, order, dry_run).disk
        /\ SetTask(t, [IdleTask EXCEPT
                !.pc = "done", !.op = "prune", !.status = "ok",
                !.out = Some(prune_to_limit(disk, disk_max_bytes, order,
                                            dry_run).report),
                !.prune = Some([dry_run |-> dry_run, order |-> order])])
        /\ written' = [f \in FileNames |->
                         IF disk'.artifact[f] = disk.artifact[f]
                         THEN written[f] ELSE Nothing]
        /\ writtenAny' = [f \in FileNames |->
                            IF disk'.artifact[f] = disk.artifact[f]
                            THEN writtenAny[f] ELSE Nothing]
    /\ diskOps' = diskOps + 1
    /\ UNCHANGED <<memVars, cfgVars, opVars, now, metrics, sfVars, sawFailure>>

NextPrune ==
    \/ Tick
    \/ \E t \in Tasks :
        \/ PruneStartWrite(t)
        \/ StartDelete(t)
        \/ PruneCall(t)
        \/ Return(t)
        \/ DelArtifact(t)
        \/ DelMeta(t)
        \/ WaValidate(t)
        \/ WaRenameArtifact(t)
        \/ WaRenameMeta(t)

SpecPrune == InitPrune /\ [][NextPrune]_vars

(***************************************************************************)
(* Claims about prune_to_limit (SpecPrune).                                *)
(***************************************************************************)
\* The step in which task t calls prune_to_limit and gets its report.
PruneStep(t) ==
    /\ task[t].pc = "idle"
    /\ task'[t].pc = "done"
    /\ task'[t].op = "prune"

\* No DiskCache call is in progress.
NoCallInProgress == \A u \in Tasks : task[u].pc \in {"idle", "done", "off"}

\* C26: after prune_to_limit(false) returns with disk_max_bytes set,
\* approx_size_bytes() is at most disk_max_bytes, for every content of the
\* directory that writes, deletes and prunes can leave behind.  Stated for
\* the prunes that run while no other call is in progress.  (The exception
\* the claim makes, a prune that can make no progress, does not exist in
\* the code: the loop of disk.rs:178-189 goes on to the last entry.)
C26_PrunedWithinLimit ==
    [][\A t \in Tasks :
          (/\ PruneStep(t)
           /\ ~Unwrap(task'[t].prune).dry_run
           /\ IsSome(disk_max_bytes)
           /\ NoCallInProgress)
          => approx_size_bytes(disk') <= Unwrap(disk_max_bytes)]_vars

\* The directory C26 fails on, once the prune has returned: an artifact
\* without a sidecar, which approx_size_bytes counts and prune_to_limit
\* never sees.
C26_Failure ==
    /\ IsSome(disk_max_bytes)
    /\ \E t \in Tasks :
        /\ task[t].pc = "done" /\ task[t].op = "prune"
        /\ ~Unwrap(task[t].prune).dry_run
        /\ Unwrap(task[t].out) = PruneReport(0, 0)
        /\ \A u \in Tasks \ {t} : task[u].pc \in {"idle", "off"}
    /\ approx_size_bytes(disk) > Unwrap(disk_max_bytes)
    /\ \E f \in FileNames : disk.artifact[f] # Nothing /\ disk.meta[f] = Nothing

\* The sidecar of f is removed by the step.
SidecarRemoved(f) == disk.meta[f] # Nothing /\ disk'.meta[f] = Nothing

\* The sidecar of f is kept by the step.
SidecarKept(f) == disk.meta[f] # Nothing /\ disk'.meta[f] # Nothing

\* The last_access_at of the sidecar of f before the step.
LastAccessAt(f) == Unwrap(disk.meta[f]).meta.last_access_at

\* C27: prune_to_limit removes entries oldest last_access_at first: an
\* entry is never removed while an entry with a strictly older
\* last_access_at is kept.  Stated for two entries whose last_access_at
\* both parse.
C27_OldestFirst ==
    [][\A t \in Tasks : PruneStep(t) =>
          \A e, k \in FileNames :
              (/\ SidecarRemoved(e)
               /\ SidecarKept(k)
               /\ IsSome(parse_from_rfc3339(LastAccessAt(e)))
               /\ IsSome(parse_from_rfc3339(LastAccessAt(k))))
              => ~(LastAccessAt(k) < LastAccessAt(e))]_vars

\* C28: prune_to_limit(true) removes no file from the cache directory and
\* returns the report prune_to_limit(false) returns from the same
\* directory (listed by read_dir in the same order), and that report is
\* what the real run removes.
C28_DryRunSameReport ==
    [][\A t \in Tasks :
          (PruneStep(t) /\ Unwrap(task'[t].prune).dry_run) =>
             /\ disk' = disk
             /\ Unwrap(task'[t].out) =
                  prune_to_limit(disk, disk_max_bytes,
                                 Unwrap(task'[t].prune).order, FALSE).report
             /\ Unwrap(task'[t].out).removed_entries =
                  Cardinality({f \in FileNames :
                      /\ disk.meta[f] # Nothing
                      /\ prune_to_limit(disk, disk_max_bytes,
                             Unwrap(task'[t].prune).order, FALSE
                           ).disk.meta[f] = Nothing})]_vars

\* A dry run has reported both entries as removed, and both are still
\* there.
C28_Witness ==
    /\ disk_max_bytes = Some(0)
    /\ \E t \in Tasks :
        /\ task[t].pc = "done" /\ task[t].op = "prune"
        /\ Unwrap(task[t].prune).dry_run
        /\ Unwrap(task[t].out) = PruneReport(2, 7)
    /\ \A f \in FileNames : disk.artifact[f] # Nothing /\ disk.meta[f] # Nothing

(***************************************************************************)
(* write_atomic with metadata that fails the pre-validation (SpecDisk).    *)
(***************************************************************************)
\* The metadata does not match the cache's engine profile.
ProfileMismatch(meta) ==
    \/ meta.engine_profile_id # Profile.engine_profile_id
    \/ meta.wasmtime_version # Profile.wasmtime_version
    \/ meta.target_triple # Profile.target_triple
    \/ meta.cpu_policy # Profile.cpu_policy
    \/ meta.config_fingerprint # Profile.config_fingerprint

\* Task t takes the first step of a write_atomic whose metadata does not
\* match the profile or carries another digest than the key.
RejectedWriteStep(t) ==
    /\ task[t].pc = "wa_validate"
    /\ task'[t] # task[t]
    /\ \/ ProfileMismatch(Unwrap(task[t].meta))
       \/ Unwrap(task[t].meta).wasm_digest # task[t].key.wasm_digest

\* C29: write_atomic called with metadata that does not match the cache's
\* engine profile, or whose digest differs from the key's digest, returns
\* an error and leaves the filesystem untouched: no directory is created
\* and the artifact and sidecar of the key are unchanged.  The call returns
\* in that one step.  The tmp files of write_atomic are not files of the
\* model's directory; its tmp directory is, and it is not created.
C29_RejectedWriteTouchesNothing ==
    [][\A t \in Tasks : RejectedWriteStep(t) =>
          /\ task'[t].pc = "done"
          /\ task'[t].status = "err"
          /\ disk' = disk]_vars

\* A write_atomic for a key of the cache's profile has returned an error
\* (which only the metadata checks produce for such a key), and the valid
\* entry the key had is in place.
C29_Witness ==
    \E t \in Tasks :
        /\ task[t].pc = "done" /\ task[t].op = "write_atomic"
        /\ task[t].status = "err"
        /\ paths_for(task[t].key)
        /\ disk.artifact[FileOf(task[t])] # Nothing
        /\ disk.meta[FileOf(task[t])] # Nothing
        /\ Unwrap(disk.meta[FileOf(task[t])]).parses
        /\ diskOps = 1

\* The same on a cache directory that does not exist yet: no directory has
\* been created.
C29_WitnessNoDirectory ==
    \E t \in Tasks :
        /\ task[t].pc = "done" /\ task[t].op = "write_atomic"
        /\ task[t].status = "err"
        /\ paths_for(task[t].key)
        /\ ~disk.artifacts_dir /\ ~disk.tmp_dir
        /\ diskOps = 1

(***************************************************************************)
(* Singleflight garbage collection (SpecMgr).                              *)
(***************************************************************************)
\* No task holds a guard, waits for a lock or is inside acquire or drop.
NoGuardOrAcquire == \A t \in Tasks : task[t].lock = 0 /\ task[t].guard = "none"

\* C30: when a SingleflightGuard is dropped and no other task waits on or
\* holds the lock object of the key, the key's entry is removed from the
\* singleflight table, so after all guards are dropped and no acquire is
\* pending the table is empty.
C30_TableEmptyWhenIdle ==
    NoGuardOrAcquire => \A k \in AllKeys : locks[k] = 0

(***************************************************************************)
(* Independence of the singleflight keys (SpecMgr).                        *)
(***************************************************************************)
\* Task u holds the guard of a key other than key.
HoldsOtherKey(u, key) == task[u].guard = "held" /\ task[u].key # key

\* Task u holds the guard of key.
HoldsKey(u, key) == task[u].guard = "held" /\ task[u].key = key

\* C31: singleflight keys are independent: while a guard for key k1 is
\* held, acquire(k2) for k2 # k1 completes without waiting for k1's guard
\* to be dropped.  A task in acquire(k2) that awaits lock_owned() finds
\* the mutex of its lock object free unless a task holds the guard of k2
\* itself.
C31_KeysIndependent ==
    \A t \in Tasks :
        (/\ task[t].pc = "sf_lock"
         /\ \A u \in Tasks \ {t} : ~HoldsKey(u, task[t].key))
        => MutexFree(task[t].lock)

\* Two tasks hold the guards of two different keys at the same time.
C31_Witness ==
    \E t, u \in Tasks :
        /\ task[t].guard = "held" /\ task[u].guard = "held"
        /\ task[t].key # task[u].key
        /\ task[t].lock # task[u].lock

\* A task awaits the lock of its key while another task holds the guard of
\* another key, and the lock is free for it.
C31_WitnessPending ==
    \E t, u \in Tasks :
        /\ task[t].pc = "sf_lock"
        /\ HoldsOtherKey(u, task[t].key)
        /\ MutexFree(task[t].lock)

(***************************************************************************)
(* The operator metrics (SpecOp).  Each caller makes one request.          *)
(***************************************************************************)
\* The request passes the tenant gate and the selector gate.
PassesGates(request) ==
    /\ request.tenant_id = Nothing \/ Unwrap(request.tenant_id) = runtime.tenant
    /\ request.provider_id # Nothing \/ request.provider_type # Nothing

\* The caller's request has been answered with one of the codes.
FailedWith(c, codes) ==
    Done(c) /\ IsError(inv[c]) /\ ErrorCode(inv[c]) \in codes

\* The callers whose request is past the resolve step.
Resolved == {c \in Callers : Passed(c, "resolve")}

MetricsCount ==
    /\ op_metrics.resolve_attempts = Cardinality(Resolved)
    /\ \A c \in Resolved : PassesGates(inv[c].request)
    /\ \A c \in Callers :
          (Done(c) /\ PassesGates(inv[c].request)) => c \in Resolved
    /\ op_metrics.resolve_errors =
          Cardinality({c \in Callers :
              FailedWith(c, {"PROVIDER_NOT_FOUND", "OP_NOT_FOUND"})})
    /\ op_metrics.invoke_attempts =
          Cardinality({c \in Callers : inv[c].invoked})
    /\ op_metrics.invoke_errors =
          Cardinality({c \in Callers : FailedWith(c, {"HOST_FAILURE"})})
    /\ op_metrics.cbor_decode_errors =
          Cardinality({c \in Callers : FailedWith(c, {"CBOR_DECODE"})})
    /\ op_metrics.resolve_errors <= op_metrics.resolve_attempts
    /\ op_metrics.invoke_errors <= op_metrics.invoke_attempts

MetricNames ==
    {"resolve_attempts", "resolve_errors", "invoke_attempts",
     "invoke_errors", "cbor_decode_errors"}

\* C32: resolve_attempts counts the requests that passed the tenant and
\* selector gates and no others, resolve_errors the failed resolves,
\* invoke_attempts the requests that reached the invoke step,
\* invoke_errors the failed invokes and cbor_decode_errors the payloads
\* that did not decode; hence resolve_errors <= resolve_attempts and
\* invoke_errors <= invoke_attempts in every state, and no counter ever
\* decreases.
C32_MetricsCountRequests ==
    /\ []MetricsCount
    /\ [][\A m \in MetricNames : op_metrics'[m] >= op_metrics[m]]_vars

\* Two requests have been resolved and invoked.
C32_Witness ==
    /\ op_metrics.resolve_attempts = 2
    /\ op_metrics.invoke_attempts = 2
    /\ \A c \in Callers : Done(c)

\* A failed invoke has been counted.
C32_WitnessInvokeError ==
    /\ op_metrics.invoke_errors = 1
    /\ op_metrics.invoke_attempts = 1
    /\ op_metrics.resolve_attempts = 1
    /\ op_metrics.resolve_errors = 0

\* A failed resolve has been counted.
C32_WitnessResolveError ==
    /\ op_metrics.resolve_errors = 1
    /\ op_metrics.resolve_attempts = 1
    /\ op_metrics.invoke_attempts = 0

\* A payload that does not decode has been counted.
C32_WitnessDecodeError ==
    /\ op_metrics.cbor_decode_errors = 1
    /\ op_metrics.resolve_attempts = 1
    /\ op_metrics.invoke_attempts = 0

(***************************************************************************)
(* Operation selection from a describe payload.  The payloads list up to   *)
(* MaxOperations operations, each with an id, with a name or with neither. *)
(***************************************************************************)
MaxOperations == 3

DescribeEntries ==
    {JObj([id |-> JStr("echo")]), JObj([id |-> JStr("run")]),
     JObj([id |-> JStr("other")]), JObj([name |-> JStr("run")]),
     JObj([title |-> JStr("unnamed")])}

DescribeLists ==
    UNION {[1..n -> DescribeEntries] : n \in 1..MaxOperations}

RequestedOperations == {<<"echo">>, <<"run">>, <<"nope">>}

\* Some entry of the list has the name.
Lists(ops, name) ==
    \E i \in 1..Len(ops) : operation_name(ops[i]) = Some(name)

\* The selection the claim describes.
SelectionAsStated(ops, requested_operation) ==
    IF Lists(ops, requested_operation) THEN Some(requested_operation)
    ELSE IF Lists(ops, <<"run">>) THEN Some(<<"run">>)
    ELSE operation_name(ops[1])

\* The describe payload of the component the caller's request resolved to.
DescribedBy(c) ==
    IF IsSome(inv[c].component) THEN Unwrap(inv[c].component).describe
    ELSE Nothing

\* C33: from a describe payload with a non-empty operations list, the
\* selected operation is the entry whose id (or name) equals
\* requested_operation wherever it appears in the list; if there is none,
\* the entry named run wherever it appears; if there is none, the first
\* entry.
C33_SelectsRequestedAnywhere ==
    /\ \A ops \in DescribeLists :
       \A requested_operation \in RequestedOperations :
          select_operation_from_describe(JObj([operations |-> JArr(ops)]),
                                         requested_operation)
              = SelectionAsStated(ops, requested_operation)
    /\ \A c \in Callers :
          (inv[c].lookup # "none" /\ IsSome(DescribedBy(c))) =>
              Some(inv[c].invoke_op_id)
                  = SelectionAsStated(
                        Unwrap(JGet(Unwrap(DescribedBy(c)), "operations")).a,
                        inv[c].op_id)

(***************************************************************************)
(* Canonical hashing (operator.rs:266-332, contract_introspection.rs:      *)
(* 154-173).  Here a JSON object keeps its keys in the order they were     *)
(* inserted, as serde_json::Map does with preserve_order; with the default *)
(* BTreeMap the keys are sorted to begin with.                             *)
(***************************************************************************)
\* serde_json::Map: the entries in iteration order
Entry(k, v) == [k |-> k, v |-> v]
Object(entries) == [t |-> "object", f |-> entries]

\* Map::get
MapGet(entries, key) ==
    entries[CHOOSE i \in DOMAIN entries : entries[i].k = key].v

\* map.keys().cloned().collect::<Vec<_>>() followed by keys.sort()
SortedKeysOf(entries) ==
    SelectSeq(KeyOrder, LAMBDA k : \E i \in DOMAIN entries : entries[i].k = k)

\* A canonicalisation that sorts the keys of the outermost object only.
canonicalize_json_value_shallow(value) ==
    CASE value.t = "object" ->
            Object([i \in 1..Len(SortedKeysOf(value.f)) |->
                Entry(SortedKeysOf(value.f)[i],
                      MapGet(value.f, SortedKeysOf(value.f)[i]))])
      [] OTHER -> value

\* operator.rs:311-332 (and canonicalize_json of contract_introspection.rs)
RECURSIVE canonicalize_json_value(_)
canonicalize_json_value(value) ==
    CASE value.t = "object" ->
            Object([i \in 1..Len(SortedKeysOf(value.f)) |->
                Entry(SortedKeysOf(value.f)[i],
                      canonicalize_json_value(
                          MapGet(value.f, SortedKeysOf(value.f)[i])))])
      [] value.t = "arr" ->
            JArr([i \in DOMAIN value.a |-> canonicalize_json_value(value.a[i])])
      [] OTHER -> value

\* serde_cbor::to_vec of a Value: the entries of a map in iteration order
RECURSIVE to_vec(_)
RECURSIVE ToVecEntries(_, _)
RECURSIVE ToVecItems(_, _)

ToVecItems(items, i) ==
    IF i > Len(items) THEN << >>
    ELSE to_vec(items[i]) \o ToVecItems(items, i + 1)

ToVecEntries(entries, i) ==
    IF i > Len(entries) THEN << >>
    ELSE <<entries[i].k>> \o to_vec(entries[i].v)
            \o ToVecEntries(entries, i + 1)

to_vec(v) ==
    CASE v.t = "object" -> <<"{">> \o ToVecEntries(v.f, 1) \o <<"}">>
      [] v.t = "arr" -> <<"[">> \o ToVecItems(v.a, 1) \o <<"]">>
      [] OTHER -> SerValue(v)

\* operator.rs:266-309 for the strings of the fixture binding
HashMaterial ==
    [resolved_digest |-> <<"sha256:", "d1">>, component_ref |-> <<"c_echo">>,
     operation_id |-> Echo, world |-> ProviderCore, export |-> "provider-core",
     state_schema_ref |-> Nothing, pack_ref |-> <<"a", "@", "1">>]

contract_hashes(h, input_schema, output_schema, config_schema) ==
    [describe_hash |->
        sha256_prefixed(h.resolved_digest \o h.component_ref
            \o <<h.world, h.export>> \o h.pack_ref
            \o to_vec(canonicalize_json_value(input_schema))
            \o to_vec(canonicalize_json_value(output_schema))),
     schema_hash |->
        sha256_prefixed(h.resolved_digest \o h.component_ref
            \o h.operation_id \o <<h.world, h.export>>
            \o to_vec(canonicalize_json_value(input_schema))
            \o to_vec(canonicalize_json_value(output_schema))
            \o to_vec(canonicalize_json_value(config_schema))
            \o SerOption(h.state_schema_ref))]

\* The schemas hashed: objects of up to MaxKeys keys that hold strings,
\* numbers, objects of up to MaxKeys keys and arrays of such objects.
MaxKeys == 2

DistinctKeys(entries) ==
    \A i, j \in DOMAIN entries : entries[i].k = entries[j].k => i = j

ObjectsOver(keys, values) ==
    {Object(entries) :
        entries \in {e \in UNION {[1..n -> {Entry(k, v) : k \in keys,
                                                          v \in values}] :
                                     n \in 0..MaxKeys} : DistinctKeys(e)}}

SchemaLeaves == {JStr("string"), JNum(1)}
InnerSchemas == ObjectsOver({"type", "pattern"}, {JStr("string")})
NestedSchemas ==
    SchemaLeaves \cup InnerSchemas
        \cup {JArr(<<o, JStr("string")>>) :
                o \in {x \in InnerSchemas : Len(x.f) = MaxKeys}}
SchemaDocs == ObjectsOver({"properties", "required"}, NestedSchemas)

SchemaSides == {"input", "output", "config"}

\* The entries i and i + 1 change places.
SwapEntries(entries, i) ==
    [j \in DOMAIN entries |->
        IF j = i THEN entries[i + 1]
        ELSE IF j = i + 1 THEN entries[i] ELSE entries[j]]

\* The values got from v by letting two neighbouring keys of one object,
\* at any depth, change places.
RECURSIVE KeySwaps(_)
KeySwaps(v) ==
    CASE v.t = "object" ->
            {Object(SwapEntries(v.f, i)) : i \in 1..(Len(v.f) - 1)}
            \cup UNION {{Object([v.f EXCEPT ![i].v = w]) :
                            w \in KeySwaps(v.f[i].v)} : i \in DOMAIN v.f}
      [] v.t = "arr" ->
            UNION {{JArr([v.a EXCEPT ![i] = w]) : w \in KeySwaps(v.a[i])} :
                      i \in DOMAIN v.a}
      [] OTHER -> {}

\* The three schemas handed to compute_contract_hashes.
SchemasHashed(h) ==
    [s \in SchemaSides |-> IF s = h.side THEN h.permuted ELSE h.written]

InitHash ==
    /\ QuietOperator
    /\ QuietMemory
    /\ QuietManager
    /\ memory_enabled = FALSE
    /\ disk_enabled = FALSE
    /\ disk_max_bytes = Nothing
    /\ disk = EmptyDisk
    /\ task = [t \in Tasks |-> OffTask]
    /\ \E doc \in SchemaDocs, side \in SchemaSides :
          hashing = [side |-> side, written |-> doc, permuted |-> doc,
                     hashes |-> Nothing]

\* Two keys of one object of the schema change places.
PermuteKeys ==
    /\ \E w \in KeySwaps(hashing.permuted) :
          hashing' = [hashing EXCEPT !.permuted = w, !.hashes = Nothing]
    /\ UNCHANGED <<memVars, memory_enabled, disk_enabled, disk_max_bytes,
                   opVars, disk, now, metrics, sfVars, task, diskOps,
                   ghostVars>>

\* compute_contract_hashes is called.
ComputeHashes ==
    /\ hashing.hashes = Nothing
    /\ hashing' = [hashing EXCEPT !.hashes =
            Some(contract_hashes(HashMaterial,
                    SchemasHashed(hashing)["input"],
                    SchemasHashed(hashing)["output"],
                    SchemasHashed(hashing)["config"]))]
    /\ UNCHANGED <<memVars, memory_enabled, disk_enabled, disk_max_bytes,
                   opVars, disk, now, metrics, sfVars, task, diskOps,
                   ghostVars>>

NextHash == PermuteKeys \/ ComputeHashes

SpecHash == InitHash /\ [][NextHash]_vars

\* The object as the pipeline model holds it: a function of its keys.
RECURSIVE AsFunction(_)
AsFunction(v) ==
    CASE v.t = "object" ->
            JObj([k \in {v.f[i].k : i \in DOMAIN v.f} |->
                    AsFunction(MapGet(v.f, k))])
      [] v.t = "arr" -> JArr([i \in DOMAIN v.a |-> AsFunction(v.a[i])])
      [] OTHER -> v

\* Array order is kept: an array of two items that differ hashes
\* differently from the array of the same items in the other order.
ArrayOrderKept(v) ==
    \A i \in DOMAIN v.f :
        (/\ v.f[i].v.t = "arr"
         /\ canonicalize_json_value(v.f[i].v.a[1])
                # canonicalize_json_value(v.f[i].v.a[2]))
        => to_vec(canonicalize_json_value(v.f[i].v))
              # to_vec(canonicalize_json_value(
                    JArr(<<v.f[i].v.a[2], v.f[i].v.a[1]>>)))

\* C34: permuting the key order of any JSON object at any depth of the
\* input, output or config schema leaves describe_hash and schema_hash
\* unchanged, array order is kept, and a second computation on the same
\* schemas gives the same hashes.  The canonical bytes are those the
\* pipeline model hashes, where an object is a function of its keys.
C34_HashIgnoresKeyOrder ==
    /\ IsSome(hashing.hashes) =>
          /\ Unwrap(hashing.hashes)
                = contract_hashes(HashMaterial, hashing.written,
                                  hashing.written, hashing.written)
          /\ Unwrap(hashing.hashes)
                = contract_hashes(HashMaterial,
                                  SchemasHashed(hashing)["input"],
                                  SchemasHashed(hashing)["output"],
                                  SchemasHashed(hashing)["config"])
    /\ hashing.side # "" =>
          /\ to_vec(canonicalize_json_value(hashing.permuted))
                = SerValue(AsFunction(hashing.written))
          /\ ArrayOrderKept(hashing.permuted)

\* The hashes of a schema with two nested objects, computed after the keys
\* of the outer object and of a nested one have changed places.
C34_Witness ==
    /\ IsSome(hashing.hashes)
    /\ hashing.written.t = "object" /\ Len(hashing.written.f) = 2
    /\ hashing.permuted.f[1].k = hashing.written.f[2].k
    /\ \E i \in 1..2 :
          /\ hashing.written.f[i].v.t = "object"
          /\ Len(hashing.written.f[i].v.f) = 2
          /\ MapGet(hashing.permuted.f, hashing.written.f[i].k).f[1].k
                = hashing.written.f[i].v.f[2].k
    /\ to_vec(hashing.permuted) # to_vec(hashing.written)

(***************************************************************************)
(* What a request has passed when its component is invoked (SpecOp).       *)
(***************************************************************************)
EarlyStages ==
    {"tenant_gate", "selector_gate", "resolve", "policy_gate",
     "pack_pinning", "attachments", "decode", "component_lookup"}

\* The request's schema_hash is absent or matches the contract's.
SchemaHashAgrees(c) ==
    \/ inv[c].request.schema_hash = Nothing
    \/ /\ IsSome(inv[c].contract_snapshot)
       /\ IsSome(Unwrap(inv[c].contract_snapshot).schema_hash)
       /\ normalize_sha256_hash(Unwrap(inv[c].request.schema_hash))
            = normalize_sha256_hash(
                Unwrap(Unwrap(inv[c].contract_snapshot).schema_hash))

\* The gates up to the component lookup, judged from the request alone.
PassedEarlyGates(c) ==
    \A stage \in EarlyStages : ~FailsAt(stage, inv[c].request)

C35_WitnessNoSchema ==
    \E c \in Callers :
        /\ inv[c].invoked
        /\ is_null(inv[c].loaded_input_schema)
        /\ inv[c].validation_options.strict
        /\ op_metrics.invoke_attempts = 1

(***************************************************************************)
(* When the secrets collaborator is asked (SpecOp).                        *)
(***************************************************************************)
GatesBeforeSecrets ==
    {"tenant_gate", "selector_gate", "resolve", "policy_gate", "pack_pinning"}

\* The keys of the secret attachments, in the order of the payload.
RECURSIVE SecretKeys(_, _)
SecretKeys(attachments, i) ==
    IF i > Len(attachments) THEN << >>
    ELSE (IF IsSome(AttachmentKind_from_metadata(attachments[i].metadata))
          THEN <<Unwrap(AttachmentKind_from_metadata(
                            attachments[i].metadata)).key>>
          ELSE << >>)
         \o SecretKeys(attachments, i + 1)

\* The keys up to and including the first one the runtime does not hold.
RECURSIVE UpToFirstDenied(_, _)
UpToFirstDenied(keys, i) ==
    IF i > Len(keys) THEN << >>
    ELSE IF keys[i] \notin DOMAIN runtime.secrets THEN <<keys[i]>>
    ELSE <<keys[i]>> \o UpToFirstDenied(keys, i + 1)

\* C36: the secrets collaborator is queried only after the tenant gate,
\* selector gate, registry resolution, policy gate and pack-pinning check
\* have passed; a request rejected by one of them never causes a secret
\* lookup; and the first denied secret ends the pipeline with
\* POLICY_DENIED before the payload is decoded, with no later secret asked
\* for.
C36_SecretsAfterGates ==
    \A c \in Callers :
        /\ inv[c].asked # << >> =>
              \A stage \in GatesBeforeSecrets :
                  ~FailsAt(stage, inv[c].request)
        /\ (/\ Done(c)
            /\ IsError(inv[c])
            /\ \/ ErrorCode(inv[c]) \in
                    {"TENANT_NOT_ALLOWED", "INVALID_REQUEST",
                     "PROVIDER_NOT_FOUND", "OP_NOT_FOUND"}
               \/ /\ ErrorCode(inv[c]) = "POLICY_DENIED"
                  /\ LastStage(inv[c]) \in {"policy_gate", "pack_pinning"})
           => inv[c].asked = << >>
        /\ Passed(c, "attachments") =>
              inv[c].asked = UpToFirstDenied(
                    SecretKeys(inv[c].request.payload.attachments, 1), 1)
        /\ (Passed(c, "attachments")
                /\ FailsAt("attachments", inv[c].request)) =>
              /\ Done(c)
              /\ IsError(inv[c])
              /\ ErrorCode(inv[c]) = "POLICY_DENIED"
              /\ ~Passed(c, "decode")

\* A request whose second secret is denied has been answered: two secrets
\* were asked for, the third was not.
C36_Witness ==
    \E c \in Callers :
        /\ Done(c)
        /\ Len(inv[c].request.payload.attachments) = 3
        /\ inv[c].asked = <<"API_KEY", "FORBIDDEN">>
        /\ ErrorCode(inv[c]) = "POLICY_DENIED"

\* A request with a secret has been rejected by pack pinning, and no
\* secret was asked for.
C36_WitnessRejectedEarlier ==
    \E c \in Callers :
        /\ Done(c)
        /\ LastStage(inv[c]) = "pack_pinning"
        /\ SecretKeys(inv[c].request.payload.attachments, 1) # << >>
        /\ inv[c].asked = << >>


(***************************************************************************)
(* A completed write and concurrent readers (SpecMgr)                      *)
(***************************************************************************)
\* A task is inside write_atomic for the file, between its two renames
\* included.
WritingTo(f) ==
    \E t \in Tasks :
        /\ task[t].pc \in {"wa_validate", "wa_rename_artifact", "wa_rename_meta"}
        /\ FileOf(task[t]) = f

\* The file's last consistent write_atomic has returned Ok and nothing has
\* been deleted by delete_entry's caller, pruned or overwritten since.
WriteCompleted(f) == written[f] # Nothing /\ ~WritingTo(f)

\* C37: once write_atomic has returned Ok and no delete or prune follows, the
\* artifact file holds the written bytes and its sidecar is present, whatever
\* try_read calls of other threads ran during the write: never a sidecar
\* without its artifact, never an artifact without its sidecar.
C37_CompletedWriteNotLost ==
    \A f \in FileNames :
        WriteCompleted(f)
            => /\ disk.artifact[f] = written[f]
               /\ disk.meta[f] # Nothing


(***************************************************************************)
(* The contract cache's byte budget (SpecOp)                               *)
(***************************************************************************)
Range(seq) == {seq[i] : i \in DOMAIN seq}

\* The estimates of the snapshots held under the first n keys of an order.
RECURSIVE PrefixBytes(_, _, _)
PrefixBytes(entries, order, n) ==
    IF n = 0 THEN 0
    ELSE entries[order[n]].bytes_estimate + PrefixBytes(entries, order, n - 1)

\* total_bytes is the sum of the estimates of the retained entries, each
\* estimate is that of its snapshot, and the LRU names each retained key
\* once.
ContractBytesAccounted ==
    /\ contract_cache.total_bytes
         = SumBytes(contract_cache.entries, DOMAIN contract_cache.entries)
    /\ \A k \in DOMAIN contract_cache.entries :
          contract_cache.entries[k].bytes_estimate
              = estimated_bytes(contract_cache.entries[k].snapshot)
    /\ Range(contract_cache.lru) = DOMAIN contract_cache.entries
    /\ Len(contract_cache.lru) = Cardinality(DOMAIN contract_cache.entries)

ContractWithinBudget ==
    runtime.contract_cache_max_bytes > 0
        => contract_cache.total_bytes <= runtime.contract_cache_max_bytes

\* The step of caller c is its ContractCache::insert.
IsContractInsert(c) ==
    inv[c].pc = "contract_insert" /\ inv'[c].pc # "contract_insert"

\* The order insert leaves before it evicts: the key in front of the others;
\* and the entries of that moment.
OrderAtInsert(c) ==
    <<inv[c].contract_key>> \o remove_lru(contract_cache.lru, inv[c].contract_key)

EntriesAtInsert(c) ==
    (inv[c].contract_key :>
        [snapshot |-> Unwrap(inv[c].contract_snapshot),
         bytes_estimate |-> estimated_bytes(Unwrap(inv[c].contract_snapshot))])
    @@ contract_cache.entries

\* What an insert retains is the most recently used keys, in their order,
\* as many as fit the budget and no fewer: the keys dropped are the least
\* recently used ones, whatever their hits.
RetainsMostRecent(c) ==
    LET order == OrderAtInsert(c)
        kept == Len(contract_cache'.lru)
    IN  /\ kept <= Len(order)
        /\ contract_cache'.lru = SubSeq(order, 1, kept)
        /\ contract_cache'.evictions
             = contract_cache.evictions + (Len(order) - kept)
        /\ \A k \in DOMAIN contract_cache'.entries :
              contract_cache'.entries[k] = EntriesAtInsert(c)[k]
        /\ kept < Len(order)
              => PrefixBytes(EntriesAtInsert(c), order, kept + 1)
                    > runtime.contract_cache_max_bytes

\* A snapshot larger than the budget is evicted by its own insert and the
\* next get for its key misses.
OversizedIsDropped(c) ==
    estimated_bytes(Unwrap(inv[c].contract_snapshot))
            > runtime.contract_cache_max_bytes
        => /\ inv[c].contract_key \notin DOMAIN contract_cache'.entries
           /\ ContractCache_get(contract_cache', inv[c].contract_key).snapshot
                = Nothing

ContractInsertStep ==
    \A c \in Callers :
        (IsContractInsert(c) /\ runtime.contract_cache_max_bytes > 0)
            => RetainsMostRecent(c) /\ OversizedIsDropped(c)

\* C38: with max_bytes > 0, total_bytes <= max_bytes after every insert,
\* reached by evicting the least recently used keys with neither pinning nor
\* hit-count protection, the inserted snapshot itself when it alone exceeds
\* the budget (the next get for its key then misses); and in every state
\* total_bytes is the sum of the estimates of the retained entries.
C38_ContractByteBudget ==
    /\ [](ContractBytesAccounted /\ ContractWithinBudget)
    /\ [][ContractInsertStep]_vars

\* An insert under a budget evicted the older key and kept the newer one.
C38_Witness ==
    /\ runtime.contract_cache_max_bytes > 0
    /\ contract_cache.evictions > 0
    /\ Len(contract_cache.lru) = 1
    /\ contract_cache.total_bytes > 0
    /\ \E c \in Callers :
          /\ inv[c].lookup = "miss" /\ inv[c].pc # "contract_insert"
          /\ inv[c].contract_key \in DOMAIN contract_cache.entries

\* The inserted snapshot alone exceeded the budget and was evicted by its
\* own insert.
C38_WitnessOversized ==
    /\ runtime.contract_cache_max_bytes > 0
    /\ contract_cache.evictions > 0
    /\ contract_cache.entries = << >>
    /\ contract_cache.total_bytes = 0
    /\ \E c \in Callers :
          /\ inv[c].lookup = "miss" /\ inv[c].pc # "contract_insert"
          /\ estimated_bytes(Unwrap(inv[c].contract_snapshot))
                > runtime.contract_cache_max_bytes


(***************************************************************************)
(* The shape of the responses of invoke_operator (SpecOp)                  *)
(***************************************************************************)
\* operator.rs:173-187, in their serialized names
OperatorErrorCode ==
    {"OP_NOT_FOUND", "PROVIDER_NOT_FOUND", "TENANT_NOT_ALLOWED",
     "INVALID_REQUEST", "CBOR_DECODE", "TYPE_MISMATCH", "COMPONENT_LOAD",
     "INVOKE_TRAP", "TIMEOUT", "POLICY_DENIED", "HOST_FAILURE"}

WellFormedResponse(r) ==
    /\ r.status \in {"Ok", "Error"}
    /\ r.status = "Ok" => IsSome(r.cbor_output) /\ r.error = Nothing
    /\ r.status = "Error"
          => /\ IsSome(r.error)
             /\ Unwrap(r.error).code \in OperatorErrorCode
             /\ r.cbor_output = Nothing
    /\ IsSome(r.cbor_output) # IsSome(r.error)

\* C39: every response invoke_operator returns has status Ok with the
\* encoded output present and no error, or status Error with an error that
\* carries a code and no encoded output; none has both or neither.
C39_ResponseWellFormed ==
    \A c \in Callers :
        /\ Done(c) => IsSome(inv[c].response)
                        /\ WellFormedResponse(Unwrap(inv[c].response))
        /\ ~Done(c) => inv[c].response = Nothing

\* An invocation returned Ok with its encoded output and no error.
C39_Witness ==
    /\ Done(1) /\ IsOk(inv[1])
    /\ IsSome(Unwrap(inv[1].response).cbor_output)
    /\ Unwrap(inv[1].response).error = Nothing

\* An invocation returned an error built without diagnostics.
C39_WitnessError ==
    /\ Done(2) /\ IsError(inv[2]) /\ ~HasDetails(inv[2])
    /\ Unwrap(inv[2].response).cbor_output = Nothing

\* An invocation returned an error that carries diagnostics.
C39_WitnessDiagnostics ==
    /\ Done(1) /\ IsError(inv[1]) /\ HasDetails(inv[1])
    /\ Unwrap(inv[1].response).cbor_output = Nothing


(***************************************************************************)
(* Termination of MemoryCache::insert (SpecMem)                            *)
(***************************************************************************)
\* One iteration of an eviction loop of evict_if_needed.
OneIteration(state, protect_lfu) ==
    EvictPass(state, max_bytes, lfu_protect_hits, protect_lfu, 1, FALSE).state

\* The candidates a loop started with `attempts` pops off the LRU before its
\* condition fails.
RECURSIVE Examined(_, _, _)
Examined(state, protect_lfu, attempts) ==
    IF state.total_bytes > max_bytes /\ attempts > 0 /\ Len(state.lru) > 0
    THEN 1 + Examined(OneIteration(state, protect_lfu), protect_lfu,
                      attempts - 1)
    ELSE 0

RECURSIVE Iterated(_, _, _)
Iterated(state, protect_lfu, n) ==
    IF n = 0 THEN state
    ELSE Iterated(OneIteration(state, protect_lfu), protect_lfu, n - 1)

\* A pass started on the state is that many iterations, at most as many as
\* the LRU holds at its start.
PassBounded(state, protect_lfu) ==
    LET n == Examined(state, protect_lfu, Len(state.lru))
    IN  /\ n <= Len(state.lru)
        /\ EvictPass(state, max_bytes, lfu_protect_hits, protect_lfu,
                     Len(state.lru), FALSE).state
             = Iterated(state, protect_lfu, n)

\* Every entry is pinned or protected by its hits.
AllProtected(state) ==
    \A k \in DOMAIN state.entries :
        should_skip_candidate(state, k, TRUE, lfu_protect_hits)

EachKeyOnce(state) ==
    /\ {state.lru[i] : i \in DOMAIN state.lru} = DOMAIN state.entries
    /\ Len(state.lru) = Cardinality(DOMAIN state.entries)

InsertReturns(size) ==
    /\ max_bytes > 0
          => /\ PassBounded(Added(size), TRUE)
             /\ PassBounded(ProtectedPass(Added(size)).state, FALSE)
    /\ (/\ max_bytes > 0
        /\ AllProtected(Added(size))
        /\ Added(size).total_bytes > max_bytes)
          => /\ memory'.entries = Added(size).entries
             /\ memory'.evictions = memory.evictions
             /\ memory'.total_bytes = Added(size).total_bytes
             /\ memory'.lru = Added(size).lru
    /\ EachKeyOnce(memory')

\* C40: MemoryCache.insert always returns: each of the two eviction passes
\* examines at most as many candidates as the LRU held when the pass
\* started, also when every entry is pinned or LFU-protected and the cache
\* stays over max_bytes; then nothing is evicted and the LRU still holds
\* each cached key exactly once.
C40_InsertTerminates ==
    [][InsertStep
          => /\ InsertSizes # {}
             /\ \A size \in InsertSizes : InsertReturns(size)]_vars

\* An insert has returned with two entries, both pinned or hit often enough,
\* a cache over max_bytes and nothing evicted.
C40_Witness ==
    /\ max_bytes > 0
    /\ lastMem.op = "insert"
    /\ memory.total_bytes > max_bytes
    /\ memory.evictions = 0
    /\ Cardinality(DOMAIN memory.entries) >= 2
    /\ AllProtected(memory)
    /\ EachKeyOnce(memory)

\* The same with an entry that only its hits protect.
C40_WitnessHot ==
    /\ C40_Witness
    /\ \E k \in DOMAIN memory.entries : ~memory.entries[k].pinned

====
